---- MODULE Spec2Model ----
(***************************************************************************)
(* Linux/Wasm host runtime (site/linux.js, site/linux-worker.js).          *)
(*                                                                         *)
(* Thirteen specifications over one set of variables:                      *)
(*                                                                         *)
(*   Spec         the controller (main thread, linux.js) and the runners   *)
(*                (Web Workers, linux-worker.js): task catalogue and       *)
(*                cooperative hand-off over the serialize lock.            *)
(*                                                                         *)
(*   SpecBridge   the synchronous host-call bridge over the network        *)
(*                messenger, with the relay clients behind it.             *)
(*                                                                         *)
(*   SpecFs       the bridge over the persistence messenger, with the      *)
(*                file store written by host calls and by the page.        *)
(*                                                                         *)
(*   SpecSyscall  the syscall translator of one runner                     *)
(*                (make_syscall_wrapper and its helpers), applied to       *)
(*                syscalls drawn from a bounded input set.                 *)
(*                                                                         *)
(*   SpecProxy    the relay client (site/net-proxy.js, class NetProxy):    *)
(*                its channel, its pending opens and its connection table, *)
(*                driven by client calls, channel events and proxy frames. *)
(*                                                                         *)
(*   SpecChannel  the channel of the relay client alone, with more open()  *)
(*                calls and no proxy frames.                               *)
(*                                                                         *)
(*   SpecRunner   the top level of one runner: its promise chain, the      *)
(*                panic, exec and signal sentinels of the user-mode tail.  *)
(*                                                                         *)
(*   SpecRelay    the relay server (RateLimiter, WSProxyServer) handling   *)
(*                the 'open' and 'close' frames of one user and the close  *)
(*                of the user's WebSocket.                                 *)
(*                                                                         *)
(*   SpecFair     Spec with weak fairness on the controller's queued       *)
(*                memory operations and on the runners' serialize wait.    *)
(*                                                                         *)
(*   SpecReap     host calls of a secondary CPU's runner that is           *)
(*                terminated while a call awaits its backend.              *)
(*                                                                         *)
(*   SpecSettle   the open() calls of the relay client under the           *)
(*                scheduling of the browser (fair sockets and timers).     *)
(*                                                                         *)
(*   SpecNet      net_open and net_read from the guest's call to the       *)
(*                frames of the proxy: messenger, controller, relay client *)
(*                and connection table together.                           *)
(*                                                                         *)
(*   SpecConsole  the bridge over the console messenger: console reads of  *)
(*                the guest against key injections of different encodings. *)
(*                                                                         *)
(* Every Atomics operation on shared memory is one step, so the runner and *)
(* the controller interleave between them.                                 *)
(***************************************************************************)
EXTENDS Integers, Sequences, FiniteSets, TLC

(***************************************************************************)
(* Bounds of the model.                                                    *)
(***************************************************************************)
MaxTasks == 2       \* task identifiers 1..MaxTasks; one runner per task
MaxCalls == 3       \* catalogue and hand-off callbacks per behaviour
MaxHostCalls == 3   \* host calls over the messengers per behaviour
MaxNetCalls == 2    \* host calls per behaviour of SpecBridge
MaxConn == 2        \* connection ids the relay client hands out
MaxClients == 2     \* relay clients alive at once (SpecBridge)
MaxBuf == 2         \* bytes buffered per connection / typed on the console
MaxOpens == 2       \* open() calls on the relay client per behaviour (SpecProxy)
MaxConnects == 3    \* open() calls per behaviour of SpecChannel
MaxSockets == 3     \* WebSockets the relay client creates per behaviour
MaxChunks == 2      \* data frames the proxy sends per behaviour

Runners == 1 .. MaxTasks
CpuIds == 0 .. 1
ConnIds == 1 .. MaxConn
Counts == 1 .. 2
Fams == {"console", "net", "fs"}

ManyTasks == 0 - 1
Unset == 0 - 2
Pending == 0 - 1    \* the sentinel a runner stores into a status slot
NoFile == <<0 - 1>>
DataByte == 9
PathList == <<47, 102>>   \* the encoded path list of the one stored file

VARIABLES
  \* ---- controller (linux.js) ----
  cpus,             \* cpus[c]: runner of CPU c, 0 when absent
  tasks,            \* tasks[t]: runner of task t, 0 when absent
  worker,           \* worker[r]: "none" | "running" | "terminated"
  input_buffer,     \* keyboard bytes not yet read
  netProxy,         \* TRUE once initNetProxy has run
  netClient,        \* the net_open calls behind the open() calls of the relay
                    \* clients, and the clients initNetProxy replaced
  netConnections,   \* connId -> [present, buffer, closed, error]
  fsPersist,        \* TRUE once initFsPersist has run
  fsFiles,          \* content of the one path, NoFile when absent
  outbox,           \* outbox[r]: messages runner r posted, not yet handled
  ctlOps,           \* shared-memory operations the running handler has left
  pending,          \* async handlers awaiting their backend
  \* ---- shared memory ----
  locks,            \* locks[r]: the serialize slot of runner r
  last_task,        \* last_task[r]: the last_task cell of runner r
  messenger,        \* messenger[r][fam] = <<status, result>>
  kbuf,             \* bytes the controller wrote at the call's buffer
  \* ---- runner (linux-worker.js) ----
  runner_type, pc, user_executable, user_memory, exec_memory,
  hcall,            \* the host call runner r is in
  hstatus,          \* status the runner loaded from its messenger
  ret,              \* value the last host callback returned to the guest
  \* ---- guest kernel ----
  next_task_id, online, calls,
  \* ---- history ----
  wakePending,      \* a wake was stored for r and r has not reset its slot
  nw,               \* nw[r]: hand-offs that have written last_task[r]
  lastStored,       \* <<prev_task, n>> of the last wake stored for r
  wokeBy,           \* <<prev_task, n>> of the hand-off that let r pass its wait
  expect,           \* at r's last return from serialize_me: the prev_task of
                    \* the hand-off that woke r, or ManyTasks when a later
                    \* hand-off had rewritten last_task[r] by then
  hist,             \* what the guest was given: the console bytes typed and
                    \* those the guest received, the payloads that arrived
                    \* for a connection and the bytes its reads returned,
                    \* and the content a load of the runner's call found
  \* ---- syscall translator (SpecSyscall) ----
  sc,
  \* ---- relay client: the NetProxy netProxy refers to ----
  np,
  \* ---- top level of one runner (SpecRunner) ----
  tl,
  \* ---- relay server, one authenticated user (SpecRelay) ----
  rl

subVars == <<cpus, tasks, worker, input_buffer, netProxy, netClient,
             netConnections, fsPersist, fsFiles, outbox, ctlOps,
             pending, locks, last_task, messenger, kbuf, runner_type, pc,
             user_executable, user_memory, exec_memory, hcall, hstatus, ret,
             next_task_id, online, calls, wakePending, nw, lastStored, wokeBy,
             expect, hist>>

vars == <<subVars, sc, np, tl, rl>>

Min(a, b) == IF a < b THEN a ELSE b

Msg(method, from, a1, a2, a3) ==
  [method |-> method, from |-> from, a1 |-> a1, a2 |-> a2, a3 |-> a3]

NoMsg == Msg("none", 0, 0, 0, 0)

NoTag == <<0, 0>>

\* An operation on shared memory; tag names the hand-off it belongs to.
Op(op, r, fam, slot, val) ==
  [op |-> op, r |-> r, fam |-> fam, slot |-> slot, val |-> val, tag |-> NoTag]

LockOp(op, r, val, tag) ==
  [op |-> op, r |-> r, fam |-> "", slot |-> 0, val |-> val, tag |-> tag]

FamOf(method) ==
  IF method = "console_read" THEN "console"
  ELSE IF method \in {"net_open", "net_write", "net_read", "net_poll", "net_close"}
       THEN "net"
  ELSE "fs"

\* The host callbacks that reset and read the second (result) slot.
HasResultSlot(method) == method \in {"net_open", "net_read", "fs_load", "fs_list"}

NoConn == [present |-> FALSE, buffer |-> <<>>, closed |-> FALSE, error |-> FALSE]

\* memory_u8.set(bytes, message.buffer): the bytes replace the start of what
\* the memory holds at the buffer, and what lies behind them stays.
BufWrite(old, bytes) == bytes \o SubSeq(old, Len(bytes) + 1, Len(old))


(***************************************************************************)
(* Construction.  linux() creates the shared kernel memory and calls       *)
(* make_cpu(0); every other runner is created later by a handler.          *)
(***************************************************************************)

\* The user_memory field of the init message make_vmlinux_runner posts: the
\* message carries options, vmlinux, memory, locks, last_task and
\* runner_name, and no user_memory.
InitMessageUserMemory == "null"

\* make_vmlinux_runner: a fresh worker, a zeroed lock block and last_task
\* cell; the worker's module-level messengers are zero-filled.
make_vmlinux_runner(r, type, ue) ==
  /\ worker' = [worker EXCEPT ![r] = "running"]
  /\ locks' = [locks EXCEPT ![r] = 0]
  /\ last_task' = [last_task EXCEPT ![r] = 0]
  /\ messenger' = [messenger EXCEPT ![r] = [f \in Fams |-> <<0, 0>>]]
  /\ runner_type' = [runner_type EXCEPT ![r] = type]
  /\ pc' = [pc EXCEPT ![r] = "init"]
  /\ user_executable' = [user_executable EXCEPT ![r] = ue]
  /\ user_memory' = [user_memory EXCEPT ![r] = "null"]
  /\ exec_memory' = [exec_memory EXCEPT ![r] = "none"]
  /\ wakePending' = [wakePending EXCEPT ![r] = FALSE]
  /\ nw' = [nw EXCEPT ![r] = 0]
  /\ lastStored' = [lastStored EXCEPT ![r] = NoTag]
  /\ wokeBy' = [wokeBy EXCEPT ![r] = NoTag]
  /\ expect' = [expect EXCEPT ![r] = Unset]

ScIdle == [pc |-> "off"]

OpenIds == 1 .. MaxConnects

\* A slot of the connection table with no record in it.
NoRecord == [present |-> FALSE, buffer |-> <<>>, closed |-> FALSE,
           error |-> FALSE, onData |-> FALSE, onClose |-> FALSE,
           onError |-> FALSE]

\* NetProxy after its constructor.  sockets, opens and remote are the
\* WebSockets created so far, the open() calls made so far and the proxy's
\* side of each id; received, delivered, closeCalls and lost record what the
\* handlers did: the payloads sent for a record, the chunks handed to its
\* data callback, the calls of its onClose callback, and the ids that were
\* pending or open when a close event was handled; errorCalls counts the
\* calls of a record's onError callback and taken is the bytes readBuffered
\* returned for it.
NpStart ==
  [ws |-> 0, sockets |-> <<>>, connected |-> FALSE, connectPromise |-> 0,
   connections |-> [i \in OpenIds |-> NoRecord], pendingOpens |-> {},
   nextConnId |-> 1, opens |-> <<>>,
   remote |-> [i \in OpenIds |-> [sock |-> 0, st |-> "none", sent |-> 0]],
   received |-> [i \in OpenIds |-> <<>>],
   delivered |-> [i \in OpenIds |-> <<>>],
   closeCalls |-> [i \in OpenIds |-> 0],
   lost |-> {},
   errorCalls |-> [i \in OpenIds |-> 0],
   taken |-> [i \in OpenIds |-> <<>>]]

\* Nothing typed, nothing received, no call made.
HistStart ==
  [typed |-> <<>>, got |-> <<>>,
   arrived |-> [id \in ConnIds |-> <<>>],
   returned |-> [id \in ConnIds |-> <<>>],
   load |-> [r \in Runners |-> NoFile]]

InitSub ==
  /\ cpus = [c \in CpuIds |-> IF c = 0 THEN 1 ELSE 0]
  /\ tasks = [t \in Runners |-> 0]
  /\ worker = [r \in Runners |-> IF r = 1 THEN "running" ELSE "none"]
  /\ input_buffer = <<>>
  /\ netProxy = FALSE
  /\ netClient = [calls |-> <<>>, replaced |-> <<>>]
  /\ netConnections = [c \in ConnIds |-> NoConn]
  /\ fsPersist = FALSE
  /\ fsFiles = NoFile
  /\ outbox = [r \in Runners |-> <<>>]
  /\ ctlOps = <<>>
  /\ pending = {}
  /\ locks = [r \in Runners |-> 0]
  /\ last_task = [r \in Runners |-> 0]
  /\ messenger = [r \in Runners |-> [f \in Fams |-> <<0, 0>>]]
  /\ kbuf = [r \in Runners |-> <<>>]
  /\ runner_type = [r \in Runners |-> IF r = 1 THEN "primary_cpu" ELSE "none"]
  /\ pc = [r \in Runners |-> IF r = 1 THEN "init" ELSE "none"]
  /\ user_executable = [r \in Runners |-> FALSE]
  /\ user_memory = [r \in Runners |-> "null"]
  /\ exec_memory = [r \in Runners |-> "none"]
  /\ hcall = [r \in Runners |-> NoMsg]
  /\ hstatus = [r \in Runners |-> 0]
  /\ ret = [r \in Runners |-> 0]
  /\ next_task_id = 2
  /\ online = [c \in CpuIds |-> c = 0]
  /\ calls = 0
  /\ wakePending = [r \in Runners |-> FALSE]
  /\ nw = [r \in Runners |-> 0]
  /\ lastStored = [r \in Runners |-> NoTag]
  /\ wokeBy = [r \in Runners |-> NoTag]
  /\ expect = [r \in Runners |-> Unset]
  /\ hist = HistStart

\* ---- top level of one runner (linux-worker.js, message_callbacks.init) ----
MaxLoads == 2       \* wasm_load_executable calls of one runner
MaxSignals == 2     \* signal handlers nested in one another
Regs == 0 .. 1      \* values of a user stack pointer or TLS base
StaticTls == 0      \* the TLS base __wasm_init_memory gives a fresh instance

\* The module-level variables of a runner before its init message
\* (linux-worker.js 20-33), with the position of its promise chain (phase),
\* the frames of wasm_user_mode_tail waiting in a signal handler (handlers),
\* the exports user_executable_run has called (ran), the kernel's values of
\* the user stack pointer and TLS base (ksp, ktls) and those of the user
\* instance (sp, tls).  trap is the exception that last reached a handler of
\* the chain and abandoned the number of signal handlers it collapsed;
\* popped counts the signal handlers the last tail call unwound by
\* signal_return; panicked records that wasm_panic has fired.
TlIdle ==
  [runner_type |-> "none", phase |-> "idle", vmlinux_instance |-> FALSE,
   user_executable |-> 0, user_executable_instance |-> 0,
   should_call_clone_callback |-> FALSE, ran |-> <<>>, handlers |-> <<>>,
   abandoned |-> 0, popped |-> 0, tls_base |-> 0, sp |-> 0, tls |-> StaticTls, ksp |-> 0, ktls |-> 0, trap |-> "none",
   panicked |-> FALSE, loads |-> 0]

\* ---- relay server (WSProxyServer and RateLimiter in linux.js) ----
MaxRequests == 6    \* 'open' frames of the one user
RequestIds == 1 .. MaxRequests
maxConcurrentConnections == 5
connectionsPerMinute == 30

\* The RateLimiter statistics of the user (getStats), the user's
\* clientConnections map (its keys) and, for every 'open' frame, how far
\* handleOpen and the socket it created have come: "none", "refused",
\* "resolving" (awaiting the DNS resolver), "connecting", "established",
\* "ended" (socket.end() called by handleClose), "gone".  wsOpen is FALSE
\* once the 'close' event of the user's WebSocket has been handled.
RlStart ==
  [activeConnections |-> 0, connectionsThisMinute |-> 0,
   clientConnections |-> {}, request |-> [id \in RequestIds |-> "none"],
   wsOpen |-> TRUE]

Init ==
  InitSub /\ sc = ScIdle /\ np = NpStart /\ tl = TlIdle /\ rl = RlStart

(***************************************************************************)
(* Runner side (linux-worker.js).                                          *)
(***************************************************************************)

Running(r) == worker[r] = "running"
InGuest(r) == Running(r) /\ pc[r] = "run"

Post(r, m) == outbox' = [outbox EXCEPT ![r] = Append(@, m)]

\* What a step of the runner's start-up leaves.
InitFrame ==
  UNCHANGED <<cpus, tasks, worker, input_buffer, netProxy, netClient, netConnections, fsPersist, fsFiles, ctlOps,
              pending, locks, last_task, messenger, kbuf, runner_type,
              user_executable, exec_memory, hcall, hstatus, ret,
              next_task_id, online, calls, wakePending, nw, lastStored,
              wokeBy, expect, hist, sc, np, tl, rl>>

\* message_callbacks.init, the message handler: take user_memory from the
\* message and start the promise chain with vmlinux_setup().  The handler
\* returns with WebAssembly.instantiate pending and nothing posted.
init(r) ==
  /\ Running(r) /\ pc[r] = "init"
  /\ user_memory' = [user_memory EXCEPT ![r] = InitMessageUserMemory]
  /\ pc' = [pc EXCEPT ![r] = "setup"]
  /\ UNCHANGED outbox
  /\ InitFrame

\* vmlinux_run, the continuation of the instantiation: the primary CPU
\* posts start_primary with init_task (task 1), and the runner enters the
\* kernel.
init_vmlinux_run(r) ==
  /\ Running(r) /\ pc[r] = "setup"
  /\ pc' = [pc EXCEPT ![r] = "run"]
  /\ IF runner_type[r] = "primary_cpu"
       THEN Post(r, Msg("start_primary", r, 1, 0, 0))
       ELSE UNCHANGED outbox
  /\ UNCHANGED user_memory
  /\ InitFrame

\* WebAssembly.instantiate rejects: vmlinux_run is skipped and nothing is
\* posted; wasm_error rethrows (there is no vmlinux_instance) and the chain
\* ends with a rejection nobody handles.  The worker stays alive and idle.
init_instantiate_rejects(r) ==
  /\ Running(r) /\ pc[r] = "setup"
  /\ pc' = [pc EXCEPT ![r] = "crashed"]
  /\ UNCHANGED <<outbox, user_memory>>
  /\ InitFrame

\* host_callbacks.wasm_load_executable: a kernel thread that becomes init
\* pre-loads the user module.
wasm_load_executable(r) ==
  /\ InGuest(r) /\ runner_type[r] = "task"
  /\ exec_memory[r] = "none" /\ ~user_executable[r]
  /\ user_executable' = [user_executable EXCEPT ![r] = TRUE]
  /\ UNCHANGED <<cpus, tasks, worker, input_buffer, netProxy, netClient, netConnections, fsPersist, fsFiles, outbox,
                 ctlOps, pending, locks, last_task, messenger, kbuf,
                 runner_type, pc, user_memory, exec_memory, hcall, hstatus,
                 ret, next_task_id, online, calls, wakePending, nw,
                 lastStored, wokeBy, expect, hist, sc, np, tl, rl>>

\* exec_memory = user_memory || memory
ExecMemory(um) == IF um # "null" THEN "user_memory" ELSE "memory"

\* user_executable_setup: ret_from_fork has returned on a task runner; the
\* user module is instantiated on exec_memory and runs from here on.
user_executable_setup(r) ==
  /\ InGuest(r) /\ runner_type[r] = "task"
  /\ user_executable[r] /\ exec_memory[r] = "none"
  /\ exec_memory' = [exec_memory EXCEPT ![r] = ExecMemory(user_memory[r])]
  /\ UNCHANGED <<cpus, tasks, worker, input_buffer, netProxy, netClient, netConnections, fsPersist, fsFiles, outbox,
                 ctlOps, pending, locks, last_task, messenger, kbuf,
                 runner_type, pc, user_executable, user_memory, hcall,
                 hstatus, ret, next_task_id, online, calls, wakePending,
                 nw, lastStored, wokeBy, expect, hist, sc, np, tl, rl>>

\* What a guest step that posts a message and touches nothing else leaves.
GuestFrame ==
  UNCHANGED <<cpus, tasks, worker, input_buffer, netProxy, netClient, netConnections, fsPersist, fsFiles, ctlOps,
              pending, locks, last_task, messenger, kbuf, runner_type,
              user_executable, user_memory, exec_memory, hcall, hstatus, ret,
              wakePending, nw, lastStored, wokeBy, expect, hist, sc, np, tl, rl>>

\* host_callbacks.wasm_start_cpu
wasm_start_cpu(r) ==
  \E c \in CpuIds \ {0} :
    /\ InGuest(r) /\ ~online[c] /\ next_task_id <= MaxTasks
    /\ Post(r, Msg("start_secondary", r, c, next_task_id, 0))
    /\ next_task_id' = next_task_id + 1
    /\ online' = [online EXCEPT ![c] = TRUE]
    /\ UNCHANGED <<pc, calls>>
    /\ GuestFrame

\* host_callbacks.wasm_stop_cpu
wasm_stop_cpu(r) ==
  \E c \in CpuIds \ {0} :
    /\ InGuest(r) /\ online[c] /\ calls < MaxCalls
    /\ Post(r, Msg("stop_secondary", r, c, 0, 0))
    /\ online' = [online EXCEPT ![c] = FALSE]
    /\ calls' = calls + 1
    /\ UNCHANGED <<pc, next_task_id>>
    /\ GuestFrame

\* host_callbacks.wasm_create_and_run_task: post, then serialize_me().
wasm_create_and_run_task(r) ==
  \E ue \in BOOLEAN :
    /\ InGuest(r) /\ next_task_id <= MaxTasks
    /\ Post(r, Msg("create_and_run_task", r, r, next_task_id, IF ue THEN 1 ELSE 0))
    /\ next_task_id' = next_task_id + 1
    /\ pc' = [pc EXCEPT ![r] = "ser_wait"]
    /\ UNCHANGED <<online, calls>>
    /\ GuestFrame

\* host_callbacks.wasm_release_task
wasm_release_task(r) ==
  \E dead \in 1 .. (next_task_id - 1) :
    /\ InGuest(r) /\ dead # r /\ calls < MaxCalls
    /\ Post(r, Msg("release_task", r, dead, 0, 0))
    /\ calls' = calls + 1
    /\ UNCHANGED <<pc, next_task_id, online>>
    /\ GuestFrame

\* host_callbacks.wasm_serialize_tasks: post, then serialize_me().
wasm_serialize_tasks(r) ==
  \E next \in 1 .. (next_task_id - 1) :
    /\ InGuest(r) /\ calls < MaxCalls
    /\ Post(r, Msg("serialize_tasks", r, r, next, 0))
    /\ calls' = calls + 1
    /\ pc' = [pc EXCEPT ![r] = "ser_wait"]
    /\ UNCHANGED <<next_task_id, online>>
    /\ GuestFrame

\* What a step on the runner's own serialize lock leaves.
LockFrame ==
  UNCHANGED <<cpus, tasks, worker, input_buffer, netProxy, netClient, netConnections, fsPersist, fsFiles, outbox, ctlOps,
              pending, messenger, kbuf, runner_type, user_executable,
              user_memory, exec_memory, hcall, hstatus, next_task_id, online,
              calls, hist, sc, np, tl, rl>>

\* lock_wait with a wait that parks the runner whatever the slot holds.
lock_wait_enter_parks(r) ==
  /\ Running(r) /\ pc[r] = "ser_wait"
  /\ pc' = [pc EXCEPT ![r] = "ser_asleep"]
  /\ UNCHANGED <<locks, last_task, ret, wakePending, nw, lastStored, wokeBy, expect>>
  /\ LockFrame

\* lock_wait, first line: Atomics.wait(locks._memory, serialize, 0) returns
\* at once when the slot is not 0 and parks the runner otherwise.
lock_wait_enter(r) ==
  /\ Running(r) /\ pc[r] = "ser_wait"
  /\ pc' = [pc EXCEPT ![r] = IF locks[r] # 0 THEN "ser_reset" ELSE "ser_asleep"]
  /\ wokeBy' = IF locks[r] # 0 THEN [wokeBy EXCEPT ![r] = lastStored[r]] ELSE wokeBy
  /\ UNCHANGED <<locks, last_task, ret, wakePending, nw, lastStored, expect>>
  /\ LockFrame

\* The value lock_wait stores after the wait.
LockWaitStore == 0

\* lock_wait without its second line: the slot keeps the value that ended
\* the wait.
lock_wait_without_reset(r) ==
  /\ Running(r) /\ pc[r] = "ser_reset"
  /\ wakePending' = [wakePending EXCEPT ![r] = FALSE]
  /\ pc' = [pc EXCEPT ![r] = "ser_read"]
  /\ UNCHANGED <<locks, last_task, ret, nw, lastStored, wokeBy, expect>>
  /\ LockFrame

\* lock_wait, second line: Atomics.store(locks._memory, serialize, 0)
lock_wait_reset(r) ==
  /\ Running(r) /\ pc[r] = "ser_reset"
  /\ locks' = [locks EXCEPT ![r] = LockWaitStore]
  /\ wakePending' = [wakePending EXCEPT ![r] = FALSE]
  /\ pc' = [pc EXCEPT ![r] = "ser_read"]
  /\ UNCHANGED <<last_task, ret, nw, lastStored, wokeBy, expect>>
  /\ LockFrame

\* serialize_me: return switch_to_last_task[0]
serialize_me_return(r) ==
  /\ Running(r) /\ pc[r] = "ser_read"
  /\ ret' = [ret EXCEPT ![r] = last_task[r]]
  /\ expect' = [expect EXCEPT ![r] =
                  IF nw[r] > wokeBy[r][2] THEN ManyTasks ELSE wokeBy[r][1]]
  /\ pc' = [pc EXCEPT ![r] = "run"]
  /\ UNCHANGED <<locks, last_task, wakePending, nw, lastStored, wokeBy>>
  /\ LockFrame


(***************************************************************************)
(* Host-call bridge, runner side (host_callbacks.wasm_driver_hvc_get,      *)
(* the wasm_net and wasm_fs families).  A callback stores -1 into the     *)
(* status slot                                                             *)
(* (and 0 into the result slot when it has one), posts its message, waits  *)
(* on the status slot, and loads the slots.  The stores and the post are   *)
(* one step: the messenger belongs to the runner until the controller      *)
(* receives the message.                                                   *)
(***************************************************************************)

Status(r, fam) == messenger[r][fam][1]
Result(r, fam) == messenger[r][fam][2]

HostCall(r, m) ==
  /\ InGuest(r) /\ calls < MaxHostCalls
  /\ messenger' = [messenger EXCEPT ![r][FamOf(m.method)] =
                     IF HasResultSlot(m.method) THEN <<Pending, 0>>
                                                ELSE <<Pending, @[2]>>]
  /\ Post(r, m)
  /\ hcall' = [hcall EXCEPT ![r] = m]
  /\ pc' = [pc EXCEPT ![r] = "hc_wait"]
  /\ calls' = calls + 1
  /\ expect' = [expect EXCEPT ![r] = Unset]
  /\ hist' = [hist EXCEPT !.load[r] = NoFile]
  /\ UNCHANGED <<cpus, tasks, worker, input_buffer, netProxy, netClient,
                 netConnections, fsPersist, fsFiles, ctlOps,
                 pending, locks, last_task, kbuf, runner_type,
                 user_executable, user_memory, exec_memory, hstatus, ret,
                 next_task_id, online, wakePending, nw, lastStored, wokeBy, sc, np, tl, rl>>

wasm_driver_hvc_get(r) ==
  \E count \in Counts : HostCall(r, Msg("console_read", r, 0, count, 0))

wasm_net_open(r) == HostCall(r, Msg("net_open", r, 0, 0, 0))

wasm_net_write(r) ==
  \E id \in ConnIds, len \in Counts : HostCall(r, Msg("net_write", r, id, len, 0))

wasm_net_read(r) ==
  \E id \in ConnIds, count \in Counts : HostCall(r, Msg("net_read", r, id, count, 0))

wasm_net_poll(r) ==
  \E id \in ConnIds : HostCall(r, Msg("net_poll", r, id, 0, 0))

wasm_net_close(r) ==
  \E id \in ConnIds : HostCall(r, Msg("net_close", r, id, 0, 0))

wasm_fs_save(r) ==
  \E len \in Counts : HostCall(r, Msg("fs_save", r, 0, len, 0))

wasm_fs_load(r) ==
  \E count \in Counts : HostCall(r, Msg("fs_load", r, 0, count, 0))

wasm_fs_delete(r) == HostCall(r, Msg("fs_delete", r, 0, 0, 0))

wasm_fs_list(r) ==
  \E count \in Counts : HostCall(r, Msg("fs_list", r, 0, count, 0))

\* What a step of the runner inside a host call leaves, but for hist.
CallFrame0 ==
  UNCHANGED <<cpus, tasks, worker, input_buffer, netProxy, netClient,
              netConnections, fsPersist, fsFiles, outbox, ctlOps,
              pending, locks, last_task, messenger, kbuf, runner_type,
              user_executable, user_memory, exec_memory, hcall,
              next_task_id, online, calls, wakePending, nw, lastStored,
              wokeBy, expect, sc, np, tl, rl>>

CallFrame == CallFrame0 /\ UNCHANGED hist

\* Atomics.wait(messenger, 0, -1): returns at once when the status slot is
\* not -1, parks the runner otherwise.
messenger_wait(r) ==
  /\ Running(r) /\ pc[r] = "hc_wait"
  /\ pc' = [pc EXCEPT ![r] = IF Status(r, FamOf(hcall[r].method)) # Pending
                               THEN "hc_status" ELSE "hc_asleep"]
  /\ UNCHANGED <<hstatus, ret>>
  /\ CallFrame

\* The guest-visible return value of a callback without a result slot.
ReturnOfStatus(m, status) ==
  IF m.method \in {"console_read", "net_poll"} THEN status
  ELSE IF m.method = "net_write" THEN (IF status = 0 THEN m.a2 ELSE 0 - 1)
  ELSE IF m.method = "net_close" THEN 0
  ELSE (IF status = 0 THEN 0 ELSE 0 - 1)          \* fs_save, fs_delete

\* The guest-visible return value of a callback with a result slot.
ReturnOfResult(m, status, result) ==
  IF status = 0 THEN result
  ELSE IF m.method = "net_read" /\ status = 3 THEN 0
  ELSE IF m.method = "fs_load" /\ status = 2 THEN 0 - 2
  ELSE 0 - 1

\* The n bytes the guest reads at the buffer of its call; memory the
\* controller has not written holds 0.
GuestBytes(r, n) ==
  [i \in 1 .. n |-> IF i <= Len(kbuf[r]) THEN kbuf[r][i] ELSE 0]

\* Atomics.load(messenger, 0)
LoadStatus(r) ==
  /\ Running(r) /\ pc[r] = "hc_status"
  /\ hstatus' = [hstatus EXCEPT ![r] = Status(r, FamOf(hcall[r].method))]
  /\ IF HasResultSlot(hcall[r].method)
       THEN /\ pc' = [pc EXCEPT ![r] = "hc_result"]
            /\ UNCHANGED ret
       ELSE /\ pc' = [pc EXCEPT ![r] = "run"]
            /\ ret' = [ret EXCEPT ![r] =
                         ReturnOfStatus(hcall[r], Status(r, FamOf(hcall[r].method)))]
  /\ CallFrame0

messenger_load_status(r) == LoadStatus(r) /\ UNCHANGED hist

\* Atomics.load(messenger, 1) and the callback's return
LoadResult(r) ==
  /\ Running(r) /\ pc[r] = "hc_result"
  /\ ret' = [ret EXCEPT ![r] =
               ReturnOfResult(hcall[r], hstatus[r], Result(r, FamOf(hcall[r].method)))]
  /\ pc' = [pc EXCEPT ![r] = "run"]
  /\ UNCHANGED hstatus
  /\ CallFrame0

messenger_load_result(r) == LoadResult(r) /\ UNCHANGED hist


(***************************************************************************)
(* Controller (linux.js).  The controller is single-threaded: a handler    *)
(* runs when no other handler is running (ctlOps is empty).  Its updates   *)
(* of controller-private state happen when it starts; its operations on    *)
(* shared memory are queued in ctlOps in program order and are applied one *)
(* per step, so that runners interleave between them.                      *)
(***************************************************************************)

Store(r, fam, slot, val) == Op("store", r, fam, slot, val)
Notify(r, fam) == Op("notify", r, fam, 0, 0)

Handling(r, method) ==
  /\ ctlOps = <<>>
  /\ outbox[r] # <<>>
  /\ Head(outbox[r]).method = method

Take(r) == outbox' = [outbox EXCEPT ![r] = Tail(@)]

\* worker.terminate(): the worker stops and what it posted is discarded.
TakeAndTerminate(r, victim) ==
  /\ worker' = [worker EXCEPT ![victim] = "terminated"]
  /\ outbox' = [outbox EXCEPT ![r] = Tail(@), ![victim] = <<>>]

\* What no handler changes.
CtlFrame0 ==
  UNCHANGED <<hcall, hstatus, ret, next_task_id, online, calls, sc, tl, rl>>

CtlFrame == CtlFrame0 /\ UNCHANGED hist

NoRunnerChange ==
  UNCHANGED <<worker, locks, last_task, messenger, runner_type, pc,
              user_executable, user_memory, exec_memory, wakePending,
              nw, lastStored, wokeBy, expect>>

NoSharedChange ==
  UNCHANGED <<locks, last_task, messenger, runner_type, pc, user_executable,
              user_memory, exec_memory, wakePending, nw, lastStored, wokeBy, expect>>

netVars == <<netProxy, np, netClient, netConnections>>
fsVars == <<fsPersist, fsFiles>>

\* message_callbacks.start_primary
start_primary(r) ==
  /\ Handling(r, "start_primary")
  /\ tasks' = [tasks EXCEPT ![Head(outbox[r]).a1] = cpus[0]]
  /\ Take(r)
  /\ UNCHANGED <<cpus, input_buffer, netVars, fsVars, ctlOps, pending, kbuf>>
  /\ NoRunnerChange /\ CtlFrame

\* message_callbacks.start_secondary and make_cpu
start_secondary(r) ==
  /\ Handling(r, "start_secondary")
  /\ LET m == Head(outbox[r]) IN
       /\ make_vmlinux_runner(m.a2, "secondary_cpu", FALSE)
       /\ cpus' = [cpus EXCEPT ![m.a1] = m.a2]
       /\ tasks' = [tasks EXCEPT ![m.a2] = m.a2]
  /\ Take(r)
  /\ UNCHANGED <<input_buffer, netVars, fsVars, ctlOps, pending, kbuf>>
  /\ CtlFrame

\* message_callbacks.stop_secondary
stop_secondary(r) ==
  /\ Handling(r, "stop_secondary")
  /\ LET m == Head(outbox[r]) IN
       IF cpus[m.a1] # 0
         THEN /\ TakeAndTerminate(r, cpus[m.a1])
              /\ cpus' = [cpus EXCEPT ![m.a1] = 0]
         ELSE /\ Take(r)
              /\ UNCHANGED <<worker, cpus>>
  /\ UNCHANGED <<tasks, input_buffer, netVars, fsVars, ctlOps, pending, kbuf>>
  /\ NoSharedChange /\ CtlFrame

\* message_callbacks.create_and_run_task and make_task
create_and_run_task(r) ==
  /\ Handling(r, "create_and_run_task")
  /\ LET m == Head(outbox[r]) IN
       /\ make_vmlinux_runner(m.a2, "task", m.a3 = 1)
       /\ tasks' = [tasks EXCEPT ![m.a2] = m.a2]
  /\ Take(r)
  /\ UNCHANGED <<cpus, input_buffer, netVars, fsVars, ctlOps, pending, kbuf>>
  /\ CtlFrame

\* release_task that terminates the worker and keeps the catalogue entry.
release_task_keeps_entry(r) ==
  /\ Handling(r, "release_task")
  /\ LET m == Head(outbox[r]) IN
       IF tasks[m.a1] # 0
         THEN TakeAndTerminate(r, tasks[m.a1])
         ELSE Take(r) /\ UNCHANGED worker
  /\ UNCHANGED <<tasks, cpus, input_buffer, netVars, fsVars, ctlOps, pending, kbuf>>
  /\ NoSharedChange /\ CtlFrame

\* message_callbacks.release_task; tasks[dead_task] of an uncatalogued task
\* is undefined and the handler throws before it changes anything.
release_task(r) ==
  /\ Handling(r, "release_task")
  /\ LET m == Head(outbox[r]) IN
       IF tasks[m.a1] # 0
         THEN /\ TakeAndTerminate(r, tasks[m.a1])
              /\ tasks' = [tasks EXCEPT ![m.a1] = 0]
         ELSE /\ Take(r)
              /\ UNCHANGED <<worker, tasks>>
  /\ UNCHANGED <<cpus, input_buffer, netVars, fsVars, ctlOps, pending, kbuf>>
  /\ NoSharedChange /\ CtlFrame

\* The shared-memory operations of message_callbacks.serialize_tasks on the
\* runner of next_task, in program order: last_task[0] = prev_task, then
\* lock_notify (Atomics.store of 1, Atomics.notify).
\* serialize_tasks with the wake issued before last_task is written.
serialize_tasks_wake_first(runner, prev_task, tag) ==
  << LockOp("lock_store", runner, 1, tag),
     LockOp("lock_notify", runner, 0, tag),
     LockOp("last_task", runner, prev_task, tag) >>

serialize_tasks_ops(runner, prev_task, tag) ==
  << LockOp("last_task", runner, prev_task, tag),
     LockOp("lock_store", runner, 1, tag),
     LockOp("lock_notify", runner, 0, tag) >>

\* message_callbacks.serialize_tasks; an uncatalogued next_task throws.
serialize_tasks(r) ==
  /\ Handling(r, "serialize_tasks")
  /\ LET m == Head(outbox[r]) IN
       ctlOps' = IF tasks[m.a2] # 0
                   THEN serialize_tasks_ops(tasks[m.a2], m.a1,
                                            <<m.a1, nw[tasks[m.a2]] + 1>>)
                   ELSE <<>>
  /\ Take(r)
  /\ UNCHANGED <<cpus, tasks, input_buffer, netVars, fsVars, pending, kbuf>>
  /\ NoRunnerChange /\ CtlFrame

\* The status message_callbacks.console_read stores: used.length.
ConsoleReadStatus(used) == Len(used)

\* message_callbacks.console_read
console_read(r) ==
  /\ Handling(r, "console_read")
  /\ LET m == Head(outbox[r])
         used == SubSeq(input_buffer, 1, Min(m.a2, Len(input_buffer)))
     IN
       /\ kbuf' = [kbuf EXCEPT ![r] = BufWrite(@, used)]
       /\ input_buffer' = SubSeq(input_buffer, Len(used) + 1, Len(input_buffer))
       /\ ctlOps' = << Store(r, "console", 1, ConsoleReadStatus(used)),
                       Notify(r, "console") >>
  /\ Take(r)
  /\ UNCHANGED <<cpus, tasks, netVars, fsVars, pending>>
  /\ NoRunnerChange /\ CtlFrame

\* The stores of the error paths of net_open, in program order.
net_open_error_ops(r) ==
  << Store(r, "net", 1, 1), Store(r, "net", 2, 0 - 1), Notify(r, "net") >>

\* The stores of the success path of net_open, in program order.
net_open_success_ops(r, connId) ==
  << Store(r, "net", 1, 0), Store(r, "net", 2, connId), Notify(r, "net") >>

(***************************************************************************)
(* Relay client: class NetProxy of site/net-proxy.js.  np is the state of  *)
(* one NetProxy object together with the WebSockets it created and the     *)
(* proxy's side of every connection id.  A WebSocket is "connecting",      *)
(* "open", "closing" (readyState CLOSING: the closing handshake has        *)
(* started), "failed" (its error event has been dispatched and its close   *)
(* event follows) or "closed" (its close event has been dispatched).       *)
(* Every event handler and every client call runs to completion in one     *)
(* step.  The continuation of an await on a pending promise runs in the    *)
(* step that settles the promise (the microtasks of an event run before    *)
(* the next event).  The continuation of an await on a promise that is     *)
(* already resolved is a microtask of the calling task: it is a step of    *)
(* its own, client calls of the same task run before it, and no event is   *)
(* handled until it has run.                                               *)
(***************************************************************************)
Payloads == {<<72>>, <<104, 105, 33>>}

\* NetProxy.uint8ArrayToBase64: btoa over the bytes; a base64 text is the
\* sequence of its 6-bit digits, 64 standing for the padding character.
RECURSIVE uint8ArrayToBase64(_)
uint8ArrayToBase64(bytes) ==
  IF Len(bytes) = 0 THEN <<>>
  ELSE IF Len(bytes) = 1
    THEN << bytes[1] \div 4, (bytes[1] % 4) * 16, 64, 64 >>
  ELSE IF Len(bytes) = 2
    THEN << bytes[1] \div 4, (bytes[1] % 4) * 16 + (bytes[2] \div 16),
            (bytes[2] % 16) * 4, 64 >>
  ELSE << bytes[1] \div 4, (bytes[1] % 4) * 16 + (bytes[2] \div 16),
          (bytes[2] % 16) * 4 + (bytes[3] \div 64), bytes[3] % 64 >>
       \o uint8ArrayToBase64(SubSeq(bytes, 4, Len(bytes)))

\* NetProxy.base64ToUint8Array: atob and one byte per character code.
RECURSIVE base64ToUint8Array(_)
base64ToUint8Array(base64) ==
  IF Len(base64) < 4 THEN <<>>
  ELSE LET b1 == base64[1] * 4 + (base64[2] \div 16)
           b2 == (base64[2] % 16) * 16 + (base64[3] \div 4)
           b3 == (base64[3] % 4) * 64 + base64[4]
       IN (IF base64[3] = 64 THEN <<b1>>
           ELSE IF base64[4] = 64 THEN <<b1, b2>>
           ELSE <<b1, b2, b3>>)
          \o base64ToUint8Array(SubSeq(base64, 5, Len(base64)))

\* this.ws.readyState === WebSocket.OPEN
ReadyOpen(p) == p.ws # 0 /\ p.sockets[p.ws].rs = "open"

\* this.ws.send(...): a null ws and a CONNECTING socket throw, an OPEN socket
\* sends, a CLOSING or CLOSED socket discards the frame silently.
SendOutcome(p) ==
  IF p.ws = 0 THEN "throws"
  ELSE IF p.sockets[p.ws].rs = "connecting" THEN "throws"
  ELSE IF p.sockets[p.ws].rs = "open" THEN "sent"
  ELSE "dropped"

\* The await of an open() whose ensureConnected() returned at once: its
\* continuation is a microtask that has not run yet.
Microtask == 0 - 1

NewOpen(w) == [await |-> w, id |-> 0, outcome |-> "none", timer |-> "none"]

\* NetProxy.open after its await: the id is taken, the pending open is
\* recorded, the open frame is sent and the timer is armed.  An exception of
\* send inside the promise executor rejects the promise and skips the timer.
open_resume(p, c) ==
  LET id == p.nextConnId
      out == SendOutcome(p)
      p1 == [p EXCEPT !.nextConnId = id + 1, !.pendingOpens = @ \cup {id}]
  IN IF out = "throws"
       THEN [p1 EXCEPT !.opens[c] = [@ EXCEPT !.await = 0, !.id = id,
                                               !.outcome = "send_failed"]]
       ELSE [p1 EXCEPT !.opens[c] = [@ EXCEPT !.await = 0, !.id = id,
                                               !.timer = "armed"],
                       !.remote[id] = IF out = "sent"
                                        THEN [sock |-> p.ws, st |-> "requested",
                                              sent |-> 0]
                                        ELSE @]

\* The open() calls awaiting the connect promise of socket w continue, in the
\* order they were made.
RECURSIVE resume_all(_, _, _)
resume_all(p, w, c) ==
  IF c > Len(p.opens) THEN p
  ELSE resume_all(IF p.opens[c].await = w THEN open_resume(p, c) ELSE p,
                  w, c + 1)

\* The open() calls whose continuation is a microtask that has not run.
Microtasks(p) == {c \in DOMAIN p.opens : p.opens[c].await = Microtask}

\* The microtask queue runs the oldest continuation: NetProxy.open after
\* an await that did not have to wait.
open_continue(p) ==
  open_resume(p, CHOOSE c \in Microtasks(p) : \A d \in Microtasks(p) : c <= d)

\* NetProxy.open up to its await, with NetProxy.ensureConnected.
open(p) ==
  LET w == Len(p.sockets) + 1
  IN IF p.connected /\ ReadyOpen(p)
       THEN [p EXCEPT !.opens = Append(@, NewOpen(Microtask))]
     ELSE IF p.connectPromise # 0
       THEN [p EXCEPT !.opens = Append(@, NewOpen(p.connectPromise))]
     ELSE [p EXCEPT !.sockets = Append(@, [rs |-> "connecting",
                                            promise |-> "pending"]),
                    !.ws = w, !.connectPromise = w,
                    !.opens = Append(@, NewOpen(w))]

\* open() creates a WebSocket in this state.
CreatesSocket(p) == ~(p.connected /\ ReadyOpen(p)) /\ p.connectPromise = 0

\* ws.onopen of socket w, then the continuations of the opens awaiting it.
onopen(p, w) ==
  resume_all([p EXCEPT !.sockets[w] = [rs |-> "open", promise |-> "resolved"],
                       !.connected = TRUE, !.connectPromise = 0], w, 1)

\* ws.onerror of socket w; rejecting a settled promise does nothing, and the
\* opens awaiting the connect promise throw out of their await.
onerror(p, w) ==
  LET rejects == p.sockets[w].promise = "pending"
  IN [p EXCEPT !.sockets[w] = [rs |-> "failed",
                               promise |-> IF rejects THEN "rejected"
                                           ELSE @.promise],
               !.connected = FALSE, !.connectPromise = 0,
               !.opens = [c \in DOMAIN @ |->
                            IF rejects /\ @[c].await = w
                              THEN [@[c] EXCEPT !.await = 0,
                                                !.outcome = "connect_failed"]
                              ELSE @[c]]]

Present(p) == {i \in OpenIds : p.connections[i].present}

\* A close handler that marks the records closed and keeps them in the table.
onclose_keeps_records(p, w) ==
  [p EXCEPT !.sockets[w].rs = "closed",
            !.connected = FALSE, !.connectPromise = 0,
            !.connections = [i \in OpenIds |->
                               IF @[i].present THEN [@[i] EXCEPT !.closed = TRUE]
                               ELSE @[i]],
            !.opens = [c \in DOMAIN @ |->
                         IF @[c].id \in p.pendingOpens /\ @[c].outcome = "none"
                           THEN [@[c] EXCEPT !.outcome = "closed"]
                           ELSE @[c]],
            !.pendingOpens = {},
            !.lost = @ \cup Present(p) \cup p.pendingOpens]

\* ws.onclose of socket w: every record is marked closed and its onClose
\* callback called, the table is cleared, every pending open is rejected.
onclose(p, w) ==
  [p EXCEPT !.sockets[w].rs = "closed",
            !.connected = FALSE, !.connectPromise = 0,
            !.closeCalls = [i \in OpenIds |->
                              IF p.connections[i].present
                                 /\ p.connections[i].onClose
                                THEN @[i] + 1 ELSE @[i]],
            !.connections = [i \in OpenIds |-> NoRecord],
            !.opens = [c \in DOMAIN @ |->
                         IF @[c].id \in p.pendingOpens /\ @[c].outcome = "none"
                           THEN [@[c] EXCEPT !.outcome = "closed"]
                           ELSE @[c]],
            !.pendingOpens = {},
            !.lost = @ \cup Present(p) \cup p.pendingOpens,
            !.remote = [i \in OpenIds |->
                          IF @[i].sock = w THEN [@[i] EXCEPT !.st = "closed"]
                          ELSE @[i]]]

\* The open() call that holds the resolve and reject functions of id.
Opener(p, id) == CHOOSE c \in DOMAIN p.opens : p.opens[c].id = id

Settle(p, id, outcome) ==
  [p EXCEPT !.opens[Opener(p, id)].outcome =
              IF @ = "none" THEN outcome ELSE @]

NewRecord == [present |-> TRUE, buffer |-> <<>>, closed |-> FALSE,
              error |-> FALSE, onData |-> FALSE, onClose |-> FALSE,
              onError |-> FALSE]

\* An 'opened' case that creates the record and leaves the id pending.
handleMessage_opened_keeps_pending(p, id) ==
  IF id \in p.pendingOpens
    THEN Settle([p EXCEPT !.connections[id] = NewRecord], id, "resolved")
    ELSE p

\* NetProxy.handleMessage, case 'opened'
handleMessage_opened(p, id) ==
  IF id \in p.pendingOpens
    THEN Settle([p EXCEPT !.pendingOpens = @ \ {id},
                          !.connections[id] = NewRecord], id, "resolved")
    ELSE p

\* NetProxy.handleMessage, case 'data'; received is the payloads the proxy
\* sent for the id while the client held a record for it.
handleMessage_data(p, id, b64, payload) ==
  IF p.connections[id].present
    THEN LET data == base64ToUint8Array(b64)
             q == [p EXCEPT !.received[id] = Append(@, payload)]
         IN IF p.connections[id].onData
              THEN [q EXCEPT !.delivered[id] = Append(@, data)]
              ELSE [q EXCEPT !.connections[id].buffer = Append(@, data)]
    ELSE p

\* NetProxy.handleMessage, case 'closed'
handleMessage_closed(p, id) ==
  IF p.connections[id].present
    THEN [p EXCEPT !.connections[id].closed = TRUE,
                   !.closeCalls[id] = IF p.connections[id].onClose
                                        THEN @ + 1 ELSE @]
    ELSE p

\* The msg field of an error frame: a text, empty when the frame has none
\* (new Error(undefined).message is "").
ErrorTexts == {"", "refused"}

\* NetProxy.handleMessage, case 'error'.  conn.error = msg.msg; the error
\* field of a record is the truthiness of the stored text, which is what
\* onError and isOpen test.
handleMessage_error(p, id, msg) ==
  IF id \in p.pendingOpens
    THEN Settle([p EXCEPT !.pendingOpens = @ \ {id}], id, "error")
  ELSE IF p.connections[id].present
    THEN [p EXCEPT !.connections[id].error = (msg # ""),
                   !.errorCalls[id] = IF p.connections[id].onError
                                        THEN @ + 1 ELSE @]
  ELSE p

\* The timer of NetProxy.open, 30 s after the open frame was sent.
timeout(p, c) ==
  LET id == p.opens[c].id
      q == [p EXCEPT !.opens[c].timer = "fired"]
  IN IF id \in p.pendingOpens
       THEN Settle([q EXCEPT !.pendingOpens = @ \ {id}], id, "timeout")
       ELSE q

\* NetProxy.write: TRUE when it throws.
write_throws(p, connId) ==
  ~p.connections[connId].present \/ SendOutcome(p) = "throws"

\* message_callbacks.net_write of linux.js with a relay client configured:
\* the status it stores, 0 when netProxy.write returned and 1 when it threw.
net_write_status(p, connId) == IF write_throws(p, connId) THEN 1 ELSE 0

\* An onData that hands the buffer over newest chunk first.
RECURSIVE Reverse(_)
Reverse(q) == IF q = <<>> THEN <<>> ELSE Reverse(Tail(q)) \o <<Head(q)>>

onData_newest_first(p, connId) ==
  [p EXCEPT !.connections[connId].onData = TRUE,
            !.connections[connId].buffer = <<>>,
            !.delivered[connId] = @ \o Reverse(p.connections[connId].buffer)]

\* NetProxy.onData: the callback is set and the buffer flushed to it.
onData(p, connId) ==
  [p EXCEPT !.connections[connId].onData = TRUE,
            !.connections[connId].buffer = <<>>,
            !.delivered[connId] = @ \o p.connections[connId].buffer]

\* NetProxy.onClose
onClose(p, connId) ==
  IF p.connections[connId].present
    THEN [p EXCEPT !.connections[connId].onClose = TRUE,
                   !.closeCalls[connId] =
                      IF p.connections[connId].closed THEN @ + 1 ELSE @]
    ELSE p

\* NetProxy.onError
onError(p, connId) ==
  IF p.connections[connId].present
    THEN [p EXCEPT !.connections[connId].onError = TRUE,
                   !.errorCalls[connId] =
                      IF p.connections[connId].error THEN @ + 1 ELSE @]
    ELSE p

\* NetProxy.readBuffered: null (nothing changes) without a record or with
\* an empty buffer; otherwise the chunks of the buffer are concatenated,
\* returned to the caller and removed, and no callback is called.
RECURSIVE Flatten(_)
Flatten(chunks) ==
  IF chunks = <<>> THEN <<>> ELSE Head(chunks) \o Flatten(Tail(chunks))

readBuffered(p, connId) ==
  IF ~p.connections[connId].present \/ p.connections[connId].buffer = <<>>
    THEN p
    ELSE [p EXCEPT !.connections[connId].buffer = <<>>,
                   !.taken[connId] = @ \o Flatten(p.connections[connId].buffer)]

\* NetProxy.close; send throwing leaves the record in place.
close(p, connId) ==
  IF ~p.connections[connId].present \/ SendOutcome(p) = "throws" THEN p
  ELSE [p EXCEPT !.connections[connId] = NoRecord,
                 !.remote[connId] =
                    IF SendOutcome(p) = "sent" /\ @.sock = p.ws
                      THEN [@ EXCEPT !.st = "closed"] ELSE @]

\* NetProxy.isClosed
isClosed(p, connId) ==
  ~p.connections[connId].present \/ p.connections[connId].closed

\* NetProxy.disconnect: ws.close() starts the closing handshake of a socket
\* that is connecting or open.
disconnect(p) ==
  LET q == IF p.ws # 0
             THEN [p EXCEPT !.sockets[p.ws].rs =
                              IF @ \in {"connecting", "open"} THEN "closing"
                              ELSE @,
                            !.ws = 0]
             ELSE p
  IN [q EXCEPT !.connected = FALSE,
               !.connections = [i \in OpenIds |-> NoRecord],
               !.pendingOpens = {}]

\* The WebSockets of p whose readyState is one of states.
SocketsOf(p, states) == {w \in DOMAIN p.sockets : p.sockets[w].rs \in states}

RECURSIVE SumSent(_, _)
SumSent(p, ids) ==
  IF ids = {} THEN 0
  ELSE LET i == CHOOSE j \in ids : TRUE
       IN p.remote[i].sent + SumSent(p, ids \ {i})

\* The data frames the proxy has sent to p.
FramesSent(p) == SumSent(p, OpenIds)

\* The proxy can send a frame for id to p: it holds id in one of states and
\* the WebSocket that carried the open frame is open.
SendableOn(p, id, states) ==
  /\ p.remote[id].st \in states
  /\ p.remote[id].sock \in SocketsOf(p, {"open"})

(***************************************************************************)
(* The relay clients behind the network host calls.  np is the NetProxy    *)
(* that netProxy refers to.  initNetProxy assigns a new NetProxy on every  *)
(* call; a client it replaced keeps its WebSockets, its table and the      *)
(* callbacks registered on it.  netClient.calls[i] is the net_open message *)
(* whose handler made the i-th open() call of the current client;          *)
(* netClient.replaced holds the replaced clients that can still act on the *)
(* controller's state, each with its NetProxy (p) and its calls.  Client 0 *)
(* is the current client, client c > 0 is netClient.replaced[c].           *)
(*                                                                         *)
(* A handler of a client runs to its end in one step, together with the    *)
(* callbacks it calls and with the continuations of the net_open handlers  *)
(* whose open() it settled, which are microtasks of the event.  The        *)
(* callbacks and the continuations use netProxy and netConnections as they *)
(* are at that moment.  The bridge keeps no record of what the handlers of *)
(* a client did (received, delivered and the other histories of np).       *)
(***************************************************************************)

IsPrefix(a, b) == Len(a) <= Len(b) /\ SubSeq(b, 1, Len(a)) = a

\* The chunks handed to the data callback of id between p and q.
NewChunks(p, q, id) ==
  SubSeq(q.delivered[id], Len(p.delivered[id]) + 1, Len(q.delivered[id]))

\* The onData, onClose and onError callbacks net_open registers, for the
\* calls the relay client made of them between p and q: a chunk is appended
\* to the buffer of the record, a close sets its closed flag, and an error
\* stores err.message, the text the client holds for the record, so that
\* the record's error is set exactly when that text is not empty; without
\* a record the callbacks do nothing.
netCallbacks(table, p, q) ==
  [id \in ConnIds |->
     IF table[id].present
       THEN [table[id] EXCEPT
               !.buffer = @ \o Flatten(NewChunks(p, q, id)),
               !.closed = @ \/ q.closeCalls[id] > p.closeCalls[id],
               !.error = IF q.errorCalls[id] > p.errorCalls[id]
                           THEN q.connections[id].error ELSE @]
       ELSE table[id]]

\* The relay client without the record of what its handlers did.
Forget(p) ==
  [p EXCEPT !.received = NpStart.received, !.delivered = NpStart.delivered,
            !.closeCalls = NpStart.closeCalls, !.lost = NpStart.lost,
            !.errorCalls = NpStart.errorCalls, !.taken = NpStart.taken]

\* The record net_open puts into netConnections.
NewConn == [present |-> TRUE, buffer |-> <<>>, closed |-> FALSE, error |-> FALSE]

ClientIds == 0 .. Len(netClient.replaced)

Client(c) ==
  IF c = 0 THEN [p |-> np, calls |-> netClient.calls]
  ELSE netClient.replaced[c]

\* The open() calls of a client whose promise is not settled.
Unsettled(p) == {i \in DOMAIN p.opens : p.opens[i].outcome = "none"}

\* A replaced client that can still act on the controller's state: a
\* net_open awaits one of its open() calls, or a record of its table has a
\* callback of net_open.
ClientLive(cl) ==
  \/ Unsettled(cl.p) # {}
  \/ \E id \in Present(cl.p) :
       \/ cl.p.connections[id].onData
       \/ cl.p.connections[id].onClose
       \/ cl.p.connections[id].onError

\* The net_open messages whose handler awaits an open() of the current
\* client p, whose open() calls have the messages ms, or of a replaced
\* client.
Awaiting(p, ms, replaced) ==
  {ms[i] : i \in Unsettled(p)}
    \cup UNION {{replaced[k].calls[i] : i \in Unsettled(replaced[k].p)} :
                  k \in DOMAIN replaced}

\* The open() calls a handler settled in taking the client from p to q.
Settled(p, q) ==
  {i \in DOMAIN q.opens :
     /\ q.opens[i].outcome # "none"
     /\ i \in DOMAIN p.opens => p.opens[i].outcome = "none"}

\* The continuations of the promises a handler settled run in the order it
\* settled them: ws.onclose walks pendingOpens in the order of the ids, the
\* opens that awaited a channel continue in the order of the calls.
SettleOrder(q, i) == q.opens[i].id * (MaxConn + 1) + i

\* message_callbacks.net_open after netProxy.open() resolved with connId,
\* for the message m: the record is put into netConnections and the
\* callbacks are registered on the client netProxy refers to now (st.cur);
\* onData hands the buffered chunks to the callback, onClose calls it for a
\* closed record and onError for a record with an error.  netProxy.onData
\* throws when that client has no record of connId: the catch clause stores
\* the error status and the new record stays in netConnections.
net_open_then(st, m, connId) ==
  LET fresh == [st.table EXCEPT ![connId] = NewConn]
      cur == onError(onClose(onData(st.cur, connId), connId), connId)
  IN IF st.cur.connections[connId].present
       THEN [cur |-> cur,
             table |-> netCallbacks(fresh, st.cur, cur),
             ops |-> st.ops \o net_open_success_ops(m.from, connId)]
       ELSE [cur |-> st.cur,
             table |-> fresh,
             ops |-> st.ops \o net_open_error_ops(m.from)]

\* message_callbacks.net_open after netProxy.open() rejected: the channel
\* failed or closed, the relay answered with an error frame, the 30 s timer
\* fired, or send threw.
net_open_catch(st, m) == [st EXCEPT !.ops = @ \o net_open_error_ops(m.from)]

\* The continuations of the net_open handlers whose open() calls todo were
\* settled, one after another; ms[i] is the message of open() call i.
RECURSIVE net_open_resume(_, _, _, _)
net_open_resume(st, q, ms, todo) ==
  IF todo = {} THEN st
  ELSE LET i == CHOOSE i \in todo :
                  \A j \in todo : SettleOrder(q, i) <= SettleOrder(q, j)
       IN net_open_resume(
            IF q.opens[i].outcome = "resolved"
              THEN net_open_then(st, ms[i], q.opens[i].id)
              ELSE net_open_catch(st, ms[i]),
            q, ms, todo \ {i})

\* A handler of client c takes its NetProxy to q; ms is the messages of
\* the client's open() calls after it.
ClientStep(c, q, ms) ==
  LET p == Client(c).p
      st == net_open_resume([cur |-> IF c = 0 THEN q ELSE np,
                             table |-> netCallbacks(netConnections, p, q),
                             ops |-> <<>>],
                            q, ms, Settled(p, q))
      old == IF c = 0 THEN netClient.replaced
             ELSE [netClient.replaced EXCEPT
                     ![c] = [p |-> Forget(q), calls |-> ms]]
  IN /\ np' = Forget(st.cur)
     /\ netClient' = [calls |-> IF c = 0 THEN ms ELSE netClient.calls,
                      replaced |-> SelectSeq(old, ClientLive)]
     /\ netConnections' = st.table
     /\ ctlOps' = st.ops
     /\ pending' = {m \in pending : m.method # "net_open"}
                     \cup Awaiting(np', netClient'.calls, netClient'.replaced)

\* message_callbacks.net_open up to its await, with NetProxy.open up to
\* its own.  With the channel open the continuation of open() is a
\* microtask of this handler: the id is taken and the open frame sent
\* before any other event is handled.
net_open(r) ==
  /\ Handling(r, "net_open")
  /\ LET m == Head(outbox[r])
         q == open(np)
     IN IF ~netProxy
          THEN /\ ctlOps' = net_open_error_ops(r)
               /\ UNCHANGED <<pending, np, netClient, netConnections>>
          ELSE /\ Len(np.opens) < MaxConn
               /\ CreatesSocket(np) => Len(np.sockets) < MaxSockets
               /\ ClientStep(0, IF Microtasks(q) # {} THEN open_continue(q) ELSE q,
                             Append(netClient.calls, m))
  /\ Take(r)
  /\ UNCHANGED <<cpus, tasks, input_buffer, netProxy, fsVars, kbuf>>
  /\ NoRunnerChange /\ CtlFrame

Awaited(m, method) == ctlOps = <<>> /\ m \in pending /\ m.method = method

\* What the continuation of an asynchronous handler leaves, but for hist.
AsyncFrame0 ==
  /\ UNCHANGED <<cpus, tasks, input_buffer, outbox>>
  /\ NoRunnerChange /\ CtlFrame0

AsyncFrame == AsyncFrame0 /\ UNCHANGED hist

\* message_callbacks.net_write: the error status without a relay client
\* and when netProxy.write throws.
net_write(r) ==
  /\ Handling(r, "net_write")
  /\ LET m == Head(outbox[r])
         status == IF ~netProxy THEN 1 ELSE net_write_status(np, m.a1)
     IN ctlOps' = << Store(r, "net", 1, status), Notify(r, "net") >>
  /\ Take(r)
  /\ UNCHANGED <<cpus, tasks, input_buffer, netVars, fsVars, pending, kbuf>>
  /\ NoRunnerChange /\ CtlFrame

\* The stores of message_callbacks.net_read, in program order.
net_read_ops(r, conn, count) ==
  IF ~conn.present
    THEN << Store(r, "net", 1, 1), Store(r, "net", 2, 0), Notify(r, "net") >>
  ELSE IF Len(conn.buffer) > 0
    THEN << Store(r, "net", 1, 0),
            Store(r, "net", 2, Min(Len(conn.buffer), count)), Notify(r, "net") >>
  ELSE IF conn.closed
    THEN << Store(r, "net", 1, 3), Store(r, "net", 2, 0), Notify(r, "net") >>
  ELSE IF conn.error
    THEN << Store(r, "net", 1, 1), Store(r, "net", 2, 0), Notify(r, "net") >>
  ELSE << Store(r, "net", 1, 0), Store(r, "net", 2, 0), Notify(r, "net") >>

\* message_callbacks.net_read
net_read(r) ==
  /\ Handling(r, "net_read")
  /\ LET m == Head(outbox[r])
         conn == netConnections[m.a1]
         toRead == Min(Len(conn.buffer), m.a2)
     IN
       /\ ctlOps' = net_read_ops(r, conn, m.a2)
       /\ IF conn.present /\ Len(conn.buffer) > 0
            THEN /\ kbuf' = [kbuf EXCEPT ![r] =
                               BufWrite(@, SubSeq(conn.buffer, 1, toRead))]
                 /\ netConnections' = [netConnections EXCEPT ![m.a1].buffer =
                                         SubSeq(@, toRead + 1, Len(@))]
            ELSE UNCHANGED <<kbuf, netConnections>>
  /\ Take(r)
  /\ UNCHANGED <<cpus, tasks, input_buffer, netProxy, np, netClient, fsVars,
                 pending>>
  /\ NoRunnerChange /\ CtlFrame

\* The status message_callbacks.net_poll stores.
net_poll_status(conn) ==
  IF ~conn.present THEN 1
  ELSE IF conn.error THEN 3
  ELSE IF conn.closed /\ Len(conn.buffer) = 0 THEN 2
  ELSE IF Len(conn.buffer) > 0 THEN 1
  ELSE 0

\* message_callbacks.net_poll
net_poll(r) ==
  /\ Handling(r, "net_poll")
  /\ ctlOps' = << Store(r, "net", 1, net_poll_status(netConnections[Head(outbox[r]).a1])),
                  Notify(r, "net") >>
  /\ Take(r)
  /\ UNCHANGED <<cpus, tasks, input_buffer, netVars, fsVars, pending, kbuf>>
  /\ NoRunnerChange /\ CtlFrame

\* message_callbacks.net_close.  netProxy.close sends the close frame
\* before it deletes its record, and the handler has no try: when send
\* throws (the client has a record and its WebSocket is still connecting)
\* the handler ends there, nothing is deleted or stored and the runner is
\* not notified.
net_close(r) ==
  /\ Handling(r, "net_close")
  /\ LET m == Head(outbox[r]) IN
       IF netProxy /\ netConnections[m.a1].present
         THEN IF np.connections[m.a1].present /\ SendOutcome(np) = "throws"
                THEN UNCHANGED <<np, netConnections, ctlOps>>
                ELSE /\ np' = close(np, m.a1)
                     /\ netConnections' = [netConnections EXCEPT ![m.a1] = NoConn]
                     /\ ctlOps' = << Store(r, "net", 1, 0), Notify(r, "net") >>
         ELSE /\ UNCHANGED <<np, netConnections>>
              /\ ctlOps' = << Store(r, "net", 1, 0), Notify(r, "net") >>
  /\ Take(r)
  /\ UNCHANGED <<cpus, tasks, input_buffer, netProxy, netClient, fsVars,
                 pending, kbuf>>
  /\ NoRunnerChange /\ CtlFrame


\* The bytes fs_save reads from kernel memory at the call's buffer.
SavedContent(len) == [i \in 1 .. len |-> DataByte + i - 1]

FsHandlerFrame ==
  /\ UNCHANGED <<cpus, tasks, input_buffer, netVars, fsVars, kbuf>>
  /\ NoRunnerChange /\ CtlFrame

\* The stores of a persistence handler that has no result slot to write.
fs_status_ops(r, status) == << Store(r, "fs", 1, status), Notify(r, "fs") >>

\* The stores of fs_load and fs_list, in program order.
fs_result_ops(r, status, result) ==
  << Store(r, "fs", 1, status), Store(r, "fs", 2, result), Notify(r, "fs") >>

\* message_callbacks.fs_save up to its await
fs_save(r) ==
  /\ Handling(r, "fs_save")
  /\ IF ~fsPersist
       THEN ctlOps' = fs_status_ops(r, 1) /\ UNCHANGED pending
       ELSE pending' = pending \cup {Head(outbox[r])} /\ UNCHANGED ctlOps
  /\ Take(r)
  /\ FsHandlerFrame

\* message_callbacks.fs_load up to its await
fs_load(r) ==
  /\ Handling(r, "fs_load")
  /\ IF ~fsPersist
       THEN ctlOps' = fs_result_ops(r, 1, 0) /\ UNCHANGED pending
       ELSE pending' = pending \cup {Head(outbox[r])} /\ UNCHANGED ctlOps
  /\ Take(r)
  /\ FsHandlerFrame

\* message_callbacks.fs_delete up to its await
fs_delete(r) ==
  /\ Handling(r, "fs_delete")
  /\ IF ~fsPersist
       THEN ctlOps' = fs_status_ops(r, 1) /\ UNCHANGED pending
       ELSE pending' = pending \cup {Head(outbox[r])} /\ UNCHANGED ctlOps
  /\ Take(r)
  /\ FsHandlerFrame

\* message_callbacks.fs_list up to its await
fs_list(r) ==
  /\ Handling(r, "fs_list")
  /\ IF ~fsPersist
       THEN ctlOps' = fs_result_ops(r, 1, 0) /\ UNCHANGED pending
       ELSE pending' = pending \cup {Head(outbox[r])} /\ UNCHANGED ctlOps
  /\ Take(r)
  /\ FsHandlerFrame

\* fs_save after saveFile resolved
fs_save_then(m) ==
  /\ Awaited(m, "fs_save")
  /\ fsFiles' = SavedContent(m.a2)
  /\ ctlOps' = fs_status_ops(m.from, 0)
  /\ pending' = pending \ {m}
  /\ UNCHANGED <<netVars, fsPersist, kbuf>>
  /\ AsyncFrame

\* fs_load after loadFile resolved
fs_load_then(m) ==
  /\ Awaited(m, "fs_load")
  /\ IF fsFiles # NoFile
       THEN /\ kbuf' = [kbuf EXCEPT ![m.from] =
                          BufWrite(@, SubSeq(fsFiles, 1, Min(Len(fsFiles), m.a2)))]
            /\ ctlOps' = fs_result_ops(m.from, 0, Min(Len(fsFiles), m.a2))
       ELSE /\ ctlOps' = fs_result_ops(m.from, 2, 0)
            /\ UNCHANGED kbuf
  /\ hist' = [hist EXCEPT !.load[m.from] = fsFiles]
  /\ pending' = pending \ {m}
  /\ UNCHANGED <<netVars, fsVars>>
  /\ AsyncFrame0

\* fs_delete after deleteFile resolved
fs_delete_then(m) ==
  /\ Awaited(m, "fs_delete")
  /\ fsFiles' = NoFile
  /\ ctlOps' = fs_status_ops(m.from, 0)
  /\ pending' = pending \ {m}
  /\ UNCHANGED <<netVars, fsPersist, kbuf>>
  /\ AsyncFrame

\* fs_list after listFiles resolved
fs_list_then(m) ==
  /\ Awaited(m, "fs_list")
  /\ LET encoded == IF fsFiles # NoFile THEN PathList ELSE <<>>
         toWrite == Min(Len(encoded), m.a2)
     IN /\ kbuf' = [kbuf EXCEPT ![m.from] = BufWrite(@, SubSeq(encoded, 1, toWrite))]
        /\ ctlOps' = fs_result_ops(m.from, 0, toWrite)
  /\ pending' = pending \ {m}
  /\ UNCHANGED <<netVars, fsVars>>
  /\ AsyncFrame

\* The catch clause of fs_save, fs_load, fs_delete and fs_list.
fs_catch(m) ==
  /\ ctlOps = <<>> /\ m \in pending /\ FamOf(m.method) = "fs"
  /\ ctlOps' = IF HasResultSlot(m.method) THEN fs_result_ops(m.from, 1, 0)
                                          ELSE fs_status_ops(m.from, 1)
  /\ pending' = pending \ {m}
  /\ UNCHANGED <<netVars, fsVars, kbuf>>
  /\ AsyncFrame

(***************************************************************************)
(* Events of the embedding page and of the relay, on the controller        *)
(* thread.                                                                 *)
(***************************************************************************)

EnvFrame ==
  /\ UNCHANGED <<cpus, tasks, outbox, ctlOps, pending, kbuf>>
  /\ NoRunnerChange /\ CtlFrame

\* initNetProxy: netProxy = new NetProxy(wsUrl, options), on every call.
\* The client it replaces stays alive; limit caps the clients alive at once.
initNetProxy(limit) ==
  /\ ctlOps = <<>>
  /\ ClientLive(Client(0)) => Len(netClient.replaced) + 1 < limit
  /\ netProxy' = TRUE
  /\ np' = NpStart
  /\ netClient' = [calls |-> <<>>,
                   replaced |-> SelectSeq(Append(netClient.replaced, Client(0)),
                                          ClientLive)]
  /\ UNCHANGED <<input_buffer, netConnections, fsVars>>
  /\ EnvFrame

\* initFsPersist
initFsPersist ==
  /\ ctlOps = <<>> /\ ~fsPersist
  /\ fsPersist' = TRUE
  /\ UNCHANGED <<input_buffer, netVars, fsFiles>>
  /\ EnvFrame

PageFrame ==
  /\ UNCHANGED <<input_buffer, netVars, fsPersist>>
  /\ EnvFrame

\* The content the embedding page saves at the path.
PageContent == <<5>>

\* FilesystemPersist.saveFile called by the page on getFsPersist(), or by
\* PackageDownloader.install: the put request completes.
page_saveFile ==
  /\ ctlOps = <<>> /\ fsPersist
  /\ fsFiles' = PageContent
  /\ PageFrame

\* FilesystemPersist.deleteFile called by the page, or by
\* PackageDownloader.removePackage.
page_deleteFile ==
  /\ ctlOps = <<>> /\ fsPersist /\ fsFiles # NoFile
  /\ fsFiles' = NoFile
  /\ PageFrame

\* FilesystemPersist.clear: store.clear() empties the store.
page_clear ==
  /\ ctlOps = <<>> /\ fsPersist /\ fsFiles # NoFile
  /\ fsFiles' = NoFile
  /\ PageFrame

\* FilesystemPersist.base64ToUint8Array: atob and one byte per character
\* code; a base64 text is the sequence of its digits, 64 for the padding.
RECURSIVE fs_base64ToUint8Array(_)
fs_base64ToUint8Array(base64) ==
  IF Len(base64) < 4 THEN <<>>
  ELSE LET b1 == base64[1] * 4 + (base64[2] \div 16)
           b2 == (base64[2] % 16) * 16 + (base64[3] \div 4)
           b3 == (base64[3] % 4) * 64 + base64[4]
       IN (IF base64[3] = 64 THEN <<b1>>
           ELSE IF base64[4] = 64 THEN <<b1, b2>>
           ELSE <<b1, b2, b3>>)
          \o fs_base64ToUint8Array(SubSeq(base64, 5, Len(base64)))

\* The content field of the backup entry of the path: "BQY=", the bytes 5, 6.
BackupContent == <<1, 16, 24, 64>>

\* FilesystemPersist.importAll: saveFile of every entry of the backup, the
\* content decoded from base64; a backup without the path leaves it alone.
page_importAll ==
  /\ ctlOps = <<>> /\ fsPersist
  /\ \E hasPath \in BOOLEAN :
       fsFiles' = IF hasPath THEN fs_base64ToUint8Array(BackupContent) ELSE fsFiles
  /\ PageFrame

\* The frame of an event of a relay client's WebSocket, but for hist.
SocketFrame0 ==
  /\ UNCHANGED <<cpus, tasks, outbox, kbuf, input_buffer, netProxy, fsVars>>
  /\ NoRunnerChange /\ CtlFrame0

SocketFrame == SocketFrame0 /\ UNCHANGED hist

\* ws.onopen of a WebSocket of client c: ensureConnected() resolves and
\* every open() that awaited it takes its id and sends its open frame.
net_ws_onopen(c) ==
  /\ ctlOps = <<>>
  /\ \E w \in SocketsOf(Client(c).p, {"connecting"}) :
       ClientStep(c, onopen(Client(c).p, w), Client(c).calls)
  /\ SocketFrame

\* The closing handshake of an open WebSocket of client c starts: its
\* readyState is CLOSING and no event has been dispatched yet.
net_ws_closing(c) ==
  /\ ctlOps = <<>>
  /\ \E w \in SocketsOf(Client(c).p, {"open"}) :
       ClientStep(c, [Client(c).p EXCEPT !.sockets[w].rs = "closing"],
                  Client(c).calls)
  /\ SocketFrame

\* ws.onerror of a WebSocket of client c: the net_open calls that awaited
\* its connect promise run their catch clause.
net_ws_onerror(c) ==
  /\ ctlOps = <<>>
  /\ \E w \in SocketsOf(Client(c).p, {"connecting", "open", "closing"}) :
       ClientStep(c, onerror(Client(c).p, w), Client(c).calls)
  /\ SocketFrame

\* ws.onclose of a WebSocket of client c: the onClose callback of every
\* record is called, the client clears its table, and every open() still
\* pending is rejected, so that its net_open runs its catch clause.
net_ws_onclose(c) ==
  /\ ctlOps = <<>>
  /\ \E w \in SocketsOf(Client(c).p, {"closing", "failed"}) :
       ClientStep(c, onclose(Client(c).p, w), Client(c).calls)
  /\ SocketFrame

\* An opened frame reaches client c: netProxy.open() resolves and the
\* net_open that awaited it continues.
net_opened(c) ==
  /\ ctlOps = <<>>
  /\ \E id \in ConnIds :
       /\ SendableOn(Client(c).p, id, {"requested"})
       /\ ClientStep(c, handleMessage_opened(
                          [Client(c).p EXCEPT !.remote[id].st = "open"], id),
                     Client(c).calls)
  /\ SocketFrame

\* A data frame with payload reaches client c for id.
DataFrame(c, id, payload) ==
  /\ ctlOps = <<>>
  /\ SendableOn(Client(c).p, id, {"open"})
  /\ FramesSent(Client(c).p) < MaxChunks
  /\ ClientStep(c, handleMessage_data(
                     [Client(c).p EXCEPT !.remote[id].sent = @ + 1], id,
                     uint8ArrayToBase64(payload), payload),
                Client(c).calls)

\* A data frame reaches client c for id: the onData callback net_open
\* registered appends its bytes to the record in netConnections.
net_onData(c, id) == DataFrame(c, id, <<DataByte>>) /\ SocketFrame

\* A closed frame reaches client c for id: the onClose callback net_open
\* registered sets the closed flag of the record.
net_onClose(c, id) ==
  /\ ctlOps = <<>>
  /\ SendableOn(Client(c).p, id, {"open"})
  /\ ClientStep(c, handleMessage_closed(
                     [Client(c).p EXCEPT !.remote[id].st = "closed"], id),
                Client(c).calls)
  /\ SocketFrame

\* An error frame reaches client c for id: a pending open() is rejected;
\* for a record the onError callback net_open registered stores
\* err.message, and error is the truthiness of the stored text, which is
\* what net_read and net_poll test.
net_onError(c, id) ==
  /\ ctlOps = <<>>
  /\ SendableOn(Client(c).p, id, {"requested", "open"})
  /\ \E msg \in ErrorTexts :
       ClientStep(c, handleMessage_error(
                       [Client(c).p EXCEPT !.remote[id].st = "closed"], id, msg),
                  Client(c).calls)
  /\ SocketFrame

\* The 30 s timer of an open() of client c fires.
net_timeout(c) ==
  /\ ctlOps = <<>>
  /\ \E i \in DOMAIN Client(c).p.opens :
       /\ Client(c).p.opens[i].timer = "armed"
       /\ ClientStep(c, timeout(Client(c).p, i), Client(c).calls)
  /\ SocketFrame

(***************************************************************************)
(* The controller's operations on shared memory, one per step.             *)
(***************************************************************************)

NextOp(kind) == ctlOps # <<>> /\ Head(ctlOps).op = kind

OpFrame ==
  /\ ctlOps' = Tail(ctlOps)
  /\ UNCHANGED <<cpus, tasks, worker, input_buffer, netVars, fsVars, outbox,
                 pending, kbuf, runner_type, user_executable, user_memory,
                 exec_memory>>
  /\ CtlFrame

\* Atomics.store(message.X_messenger, slot, val)
atomics_store ==
  /\ NextOp("store")
  /\ LET op == Head(ctlOps) IN
       messenger' = [messenger EXCEPT ![op.r][op.fam][op.slot] = op.val]
  /\ UNCHANGED <<locks, last_task, pc, wakePending, nw, lastStored, wokeBy, expect>>
  /\ OpFrame

\* Atomics.notify(message.X_messenger, 0, 1): wakes the runner if it is
\* parked on that messenger.
atomics_notify ==
  /\ NextOp("notify")
  /\ LET op == Head(ctlOps) IN
       pc' = IF Running(op.r) /\ pc[op.r] = "hc_asleep"
                /\ FamOf(hcall[op.r].method) = op.fam
               THEN [pc EXCEPT ![op.r] = "hc_status"]
               ELSE pc
  /\ UNCHANGED <<locks, last_task, messenger, wakePending, nw, lastStored, wokeBy, expect>>
  /\ OpFrame

\* tasks[next_task].last_task[0] = prev_task
write_last_task ==
  /\ NextOp("last_task")
  /\ LET op == Head(ctlOps) IN
       /\ last_task' = [last_task EXCEPT ![op.r] = op.val]
       /\ nw' = [nw EXCEPT ![op.r] = @ + 1]
  /\ UNCHANGED <<locks, messenger, pc, wakePending, lastStored, wokeBy, expect>>
  /\ OpFrame

\* lock_notify, first line: Atomics.store(locks._memory, serialize, 1)
lock_notify_store ==
  /\ NextOp("lock_store")
  /\ LET op == Head(ctlOps) IN
       /\ locks' = [locks EXCEPT ![op.r] = op.val]
       /\ wakePending' = [wakePending EXCEPT ![op.r] = TRUE]
       /\ lastStored' = [lastStored EXCEPT ![op.r] = op.tag]
  /\ UNCHANGED <<last_task, messenger, pc, nw, wokeBy, expect>>
  /\ OpFrame

\* lock_notify, second line: Atomics.notify wakes the runner if it is
\* parked on its serialize slot.
lock_notify_notify ==
  /\ NextOp("lock_notify")
  /\ LET op == Head(ctlOps) IN
       IF Running(op.r) /\ pc[op.r] = "ser_asleep"
         THEN /\ pc' = [pc EXCEPT ![op.r] = "ser_reset"]
              /\ wokeBy' = [wokeBy EXCEPT ![op.r] = op.tag]
         ELSE UNCHANGED <<pc, wokeBy>>
  /\ UNCHANGED <<locks, last_task, messenger, wakePending, nw, lastStored, expect>>
  /\ OpFrame

(***************************************************************************)
(* Spec: the controller's catalogue and the cooperative hand-off.          *)
(***************************************************************************)

RunnerStep(r) ==
  \/ init(r)
  \/ init_vmlinux_run(r)
  \/ init_instantiate_rejects(r)
  \/ wasm_load_executable(r)
  \/ user_executable_setup(r)
  \/ wasm_start_cpu(r)
  \/ wasm_stop_cpu(r)
  \/ wasm_create_and_run_task(r)
  \/ wasm_release_task(r)
  \/ wasm_serialize_tasks(r)
  \/ lock_wait_enter(r)
  \/ lock_wait_reset(r)
  \/ serialize_me_return(r)

HandlerStep(r) ==
  \/ start_primary(r)
  \/ start_secondary(r)
  \/ stop_secondary(r)
  \/ create_and_run_task(r)
  \/ release_task(r)
  \/ serialize_tasks(r)

LockOpStep ==
  \/ write_last_task
  \/ lock_notify_store
  \/ lock_notify_notify

Next ==
  \/ \E r \in Runners : RunnerStep(r)
  \/ \E r \in Runners : HandlerStep(r)
  \/ LockOpStep

Spec == Init /\ [][Next]_vars

(***************************************************************************)
(* SpecBridge: the synchronous host-call bridge between the runners and    *)
(* the controller on the network messenger; the page may replace the relay *)
(* client while connections of the earlier one are open or being opened.   *)
(* SpecConsole has the console messenger, SpecFs the persistence one.      *)
(***************************************************************************)

BridgeRunnerStep(r) ==
  \/ init(r)
  \/ init_vmlinux_run(r)
  \/ init_instantiate_rejects(r)
  \/ calls < MaxNetCalls /\ wasm_net_open(r)
  \/ calls < MaxNetCalls /\ wasm_net_write(r)
  \/ calls < MaxNetCalls /\ wasm_net_read(r)
  \/ calls < MaxNetCalls /\ wasm_net_poll(r)
  \/ calls < MaxNetCalls /\ wasm_net_close(r)
  \/ messenger_wait(r)
  \/ messenger_load_status(r)
  \/ messenger_load_result(r)

BridgeHandlerStep(r) ==
  \/ start_primary(r)
  \/ net_open(r)
  \/ net_write(r)
  \/ net_read(r)
  \/ net_poll(r)
  \/ net_close(r)

SocketStep(c) ==
  \/ net_ws_onopen(c)
  \/ net_ws_closing(c)
  \/ net_ws_onerror(c)
  \/ net_ws_onclose(c)
  \/ net_opened(c)
  \/ net_timeout(c)
  \/ \E id \in ConnIds : net_onData(c, id) \/ net_onClose(c, id) \/ net_onError(c, id)

PageStep ==
  \/ page_saveFile
  \/ page_deleteFile
  \/ page_clear
  \/ page_importAll

EnvStep ==
  \/ initNetProxy(MaxClients)
  \/ \E c \in ClientIds : SocketStep(c)

MessengerOpStep ==
  \/ atomics_store
  \/ atomics_notify

NextBridge ==
  \/ \E r \in Runners : BridgeRunnerStep(r)
  \/ \E r \in Runners : BridgeHandlerStep(r)
  \/ EnvStep
  \/ MessengerOpStep

SpecBridge == Init /\ [][NextBridge]_vars

(***************************************************************************)
(* SpecFs: the persistence host calls of one runner, with the embedding    *)
(* page writing the same store through getFsPersist().                     *)
(***************************************************************************)

FsRunnerStep(r) ==
  \/ init(r)
  \/ init_vmlinux_run(r)
  \/ init_instantiate_rejects(r)
  \/ wasm_fs_save(r)
  \/ wasm_fs_load(r)
  \/ wasm_fs_delete(r)
  \/ wasm_fs_list(r)
  \/ messenger_wait(r)
  \/ messenger_load_status(r)
  \/ messenger_load_result(r)

FsHandlerStep(r) ==
  \/ start_primary(r)
  \/ fs_save(r)
  \/ fs_load(r)
  \/ fs_delete(r)
  \/ fs_list(r)

FsAsyncStep(m) ==
  \/ fs_save_then(m)
  \/ fs_load_then(m)
  \/ fs_delete_then(m)
  \/ fs_list_then(m)
  \/ fs_catch(m)

NextFs ==
  \/ \E r \in Runners : FsRunnerStep(r)
  \/ \E r \in Runners : FsHandlerStep(r)
  \/ \E m \in pending : FsAsyncStep(m)
  \/ initFsPersist
  \/ PageStep
  \/ MessengerOpStep

SpecFs == Init /\ [][NextFs]_vars


(***************************************************************************)
(* Syscall translator (linux-worker.js, user_executable_setup).            *)
(*                                                                         *)
(* sc is the state of one wrapped syscall of one runner:                   *)
(*   isolated   the runner has a user_memory                               *)
(*   nr, orig   the syscall number and the caller's arguments              *)
(*   args       the arguments handed to the kernel entry                   *)
(*   umem, kmem user memory and kernel memory, byte arrays from address 0  *)
(*   cur        syscall_buffer_current                                     *)
(*   cur0       syscall_buffer_current when the wrapper was called         *)
(*   ptr        the pointer the last copy helper returned                  *)
(*   allocs     one record per alloc_syscall_buffer call of this syscall   *)
(*   copies     one record per copy_out call of this syscall               *)
(*   iovecs     iovec_info.user_iovecs                                     *)
(*   result     what the kernel entry returned                             *)
(*   returned   what the wrapper returned                                  *)
(*   error      "none", or the exception that ended the wrapper            *)
(***************************************************************************)

Undefined == 0 - 1

SYS_read == 63
SYS_write == 64
SYS_openat == 56
SYS_close == 57
SYS_fstat == 80
SYS_newfstatat == 79
SYS_readv == 65
SYS_writev == 66
SYS_pread64 == 67
SYS_pwrite64 == 68
SYS_readlinkat == 78
SYS_mkdirat == 34
SYS_unlinkat == 35
SYS_renameat == 38
SYS_getcwd == 17
SYS_chdir == 49
SYS_faccessat == 48
SYS_futex == 98
SYS_set_tid_address == 96
SYS_clock_gettime == 113
SYS_nanosleep == 101
SYS_getpid == 172
SYS_execve == 221
SYS_wait4 == 260
SYS_uname == 160
SYS_getdents64 == 61
SYS_statx == 291

IOVEC_SIZE == 8

NoIovec == [arg |-> Undefined, count_arg |-> Undefined, direction |-> "none"]

\* One descriptor: in, out, inout and string are sets of argument positions
\* (from 0), sizes maps positions 0..5 to the number the table gives
\* (Undefined when it gives none).
Descriptor(in, out, string, sizes) ==
  [in |-> in, out |-> out, inout |-> {}, string |-> string,
   sizes |-> sizes, iovec |-> NoIovec, listed |-> TRUE]

NoSizes == [i \in 0 .. 5 |-> Undefined]
SizeAt(i, n) == [NoSizes EXCEPT ![i] = n]

NoDescriptor ==
  [in |-> {}, out |-> {}, inout |-> {}, string |-> {}, sizes |-> NoSizes,
   iovec |-> NoIovec, listed |-> FALSE]

SYSCALL_POINTER_MAP(nr) ==
  CASE nr = SYS_read -> Descriptor({}, {1}, {}, SizeAt(1, 2))
    [] nr = SYS_write -> Descriptor({1}, {}, {}, SizeAt(1, 2))
    [] nr = SYS_openat -> Descriptor({1}, {}, {1}, NoSizes)
    [] nr = SYS_fstat -> Descriptor({}, {1}, {}, SizeAt(1, 128))
    [] nr = SYS_newfstatat -> Descriptor({1}, {2}, {1}, SizeAt(2, 128))
    [] nr = SYS_readlinkat -> Descriptor({1}, {2}, {1}, SizeAt(2, 3))
    [] nr = SYS_mkdirat -> Descriptor({1}, {}, {1}, NoSizes)
    [] nr = SYS_unlinkat -> Descriptor({1}, {}, {1}, NoSizes)
    [] nr = SYS_renameat -> Descriptor({1, 3}, {}, {1, 3}, NoSizes)
    [] nr = SYS_getcwd -> Descriptor({}, {0}, {}, SizeAt(0, 1))
    [] nr = SYS_chdir -> Descriptor({0}, {}, {0}, NoSizes)
    [] nr = SYS_faccessat -> Descriptor({1}, {}, {1}, NoSizes)
    [] nr = SYS_futex ->
         [Descriptor({}, {}, {}, SizeAt(0, 4)) EXCEPT !.inout = {0}]
    [] nr = SYS_set_tid_address -> Descriptor({}, {0}, {}, SizeAt(0, 4))
    [] nr = SYS_clock_gettime -> Descriptor({}, {1}, {}, SizeAt(1, 16))
    [] nr = SYS_nanosleep ->
         Descriptor({0}, {1}, {}, [NoSizes EXCEPT ![0] = 16, ![1] = 16])
    [] nr = SYS_uname -> Descriptor({}, {0}, {}, SizeAt(0, 390))
    [] nr = SYS_getdents64 -> Descriptor({}, {1}, {}, SizeAt(1, 2))
    [] nr = SYS_statx -> Descriptor({1}, {4}, {1}, SizeAt(4, 256))
    [] nr = SYS_execve -> Descriptor({0, 1, 2}, {}, {0}, NoSizes)
    [] nr = SYS_pread64 -> Descriptor({}, {1}, {}, SizeAt(1, 2))
    [] nr = SYS_pwrite64 -> Descriptor({1}, {}, {}, SizeAt(1, 2))
    [] nr = SYS_wait4 ->
         Descriptor({}, {1, 3}, {}, [NoSizes EXCEPT ![1] = 4, ![3] = 144])
    [] nr = SYS_readv ->
         [Descriptor({}, {}, {}, NoSizes) EXCEPT
            !.iovec = [arg |-> 1, count_arg |-> 2, direction |-> "out"]]
    [] nr = SYS_writev ->
         [Descriptor({}, {}, {}, NoSizes) EXCEPT
            !.iovec = [arg |-> 1, count_arg |-> 2, direction |-> "in"]]
    [] OTHER -> NoDescriptor

(***************************************************************************)
(* Memory layout of the bounded inputs.                                    *)
(***************************************************************************)
ScratchSize == 32          \* syscall_buffer_size of the init message

IovAddr == 8               \* a two-entry iovec array
Path2Addr == 24            \* the string "/b"
BufA == 32
BufB == 64
OutAddr == 96              \* room for the largest fixed-size structure
PathAddr == 488            \* a path of PathLen bytes and its terminator
UMemSize == PathAddr + ScratchSize + 8
SyscallBufferOffset == UMemSize     \* syscall_buffer_offset of the init message
KMemSize == SyscallBufferOffset + ScratchSize + 8

UserByte(a) == 1 + (a % 97)        \* initial user memory, never 0
KernelByte(a) == 100 + (a % 89)    \* initial kernel memory
ResponseByte(j) == 200 + (j % 50)  \* the j-th byte the kernel produces

\* Little-endian uint32 at address a, as DataView.getUint32(a, true) reads.
GetUint32(mem, a) ==
  mem[a] + 256 * mem[a + 1] + 65536 * mem[a + 2] + 16777216 * mem[a + 3]

\* The byte at offset k of the little-endian uint32 v.
Uint32Byte(v, k) ==
  CASE k = 0 -> v % 256
    [] k = 1 -> (v \div 256) % 256
    [] k = 2 -> (v \div 65536) % 256
    [] OTHER -> (v \div 16777216) % 256

\* DataView.setUint32(a, v, true)
SetUint32(mem, a, v) ==
  [x \in DOMAIN mem |-> IF x >= a /\ x < a + 4 THEN Uint32Byte(v, x - a) ELSE mem[x]]

\* User memory of an input: the iovec array {BufA, len1}, {BufB, len2}, the
\* string "/b", and a path of pathLen non-zero bytes.
InitialUserMemory(pathLen, len1, len2) ==
  [a \in 0 .. (UMemSize - 1) |->
     IF a >= IovAddr /\ a < IovAddr + 4 THEN Uint32Byte(BufA, a - IovAddr)
     ELSE IF a >= IovAddr + 4 /\ a < IovAddr + 8 THEN Uint32Byte(len1, a - IovAddr - 4)
     ELSE IF a >= IovAddr + 8 /\ a < IovAddr + 12 THEN Uint32Byte(BufB, a - IovAddr - 8)
     ELSE IF a >= IovAddr + 12 /\ a < IovAddr + 16 THEN Uint32Byte(len2, a - IovAddr - 12)
     ELSE IF a = Path2Addr + 2 THEN 0
     ELSE IF a = PathAddr + pathLen THEN 0
     ELSE UserByte(a)]

InitialKernelMemory == [a \in 0 .. (KMemSize - 1) |-> KernelByte(a)]

(***************************************************************************)
(* The copy helpers.  Each takes the translator state s and returns the    *)
(* state after the call; the pointer a helper returns is left in s.ptr.    *)
(* Once an exception is thrown (s.error is not "none") the rest of the     *)
(* wrapper does not run.                                                   *)
(***************************************************************************)

\* A bump pointer that is never rounded up.
AlignUp8_unaligned(x) == x

\* (x + 7) & ~7
AlignUp8(x) == ((x + 7) \div 8) * 8

\* An allocator that never reports an overflow.
Overflows_never(cur) == FALSE

\* syscall_buffer_current > syscall_buffer_size
Overflows(cur) == cur > ScratchSize

\* A wrapper that leaves the bump pointer where the last syscall left it.
reset_syscall_buffer_keeps(s) == s

\* syscall_buffer_current = 0

reset_syscall_buffer(s) == [s EXCEPT !.cur = 0]

alloc_syscall_buffer(s, size) ==
  LET offset == AlignUp8(s.cur)
      cur == offset + size
      entry == [before |-> s.cur, offset |-> offset, size |-> size,
                ok |-> ~Overflows(cur)]
  IN IF s.error # "none" THEN s
     ELSE IF Overflows(cur)
       THEN [s EXCEPT !.cur = cur, !.allocs = Append(@, entry),
                      !.error = "overflow"]
       ELSE [s EXCEPT !.cur = cur, !.allocs = Append(@, entry),
                      !.ptr = SyscallBufferOffset + offset]

copy_in(s, user_ptr, size) ==
  IF s.error # "none" THEN s
  ELSE IF user_ptr = 0 THEN [s EXCEPT !.ptr = 0]
  ELSE
    LET a == alloc_syscall_buffer(s, size)
        entry == [user_ptr |-> user_ptr, kernel_ptr |-> a.ptr, size |-> size,
                  before |-> s.cur, after |-> a.cur, ok |-> a.error = "none"]
    IN IF a.error # "none" THEN [a EXCEPT !.copyins = Append(@, entry)]
       ELSE IF user_ptr + size > UMemSize
         THEN [a EXCEPT !.error = "range"]    \* new Uint8Array throws RangeError
       ELSE [a EXCEPT
               !.kmem = [x \in DOMAIN a.kmem |->
                           IF x >= a.ptr /\ x < a.ptr + size
                           THEN s.umem[user_ptr + (x - a.ptr)]
                           ELSE a.kmem[x]],
               !.copyins = Append(@, entry)]

\* while (user_u8[user_ptr + len] !== 0) len++ : the first len with a zero
\* byte; past the end of user memory the read is undefined, never 0.
RECURSIVE ScanString(_, _, _)
ScanString(umem, user_ptr, len) ==
  IF user_ptr + len >= UMemSize THEN Undefined
  ELSE IF umem[user_ptr + len] = 0 THEN len
  ELSE ScanString(umem, user_ptr, len + 1)

copy_string_in(s, user_ptr) ==
  IF s.error # "none" THEN s
  ELSE IF user_ptr = 0 THEN [s EXCEPT !.ptr = 0]
  ELSE LET len == ScanString(s.umem, user_ptr, 0)
       IN IF len = Undefined THEN [s EXCEPT !.error = "hang"]
          ELSE copy_in(s, user_ptr, len + 1)

copy_out(s, user_ptr, kernel_ptr, size) ==
  IF s.error # "none" THEN s
  ELSE IF user_ptr = 0 \/ kernel_ptr = 0 THEN s
  ELSE IF kernel_ptr + size > KMemSize \/ user_ptr + size > UMemSize \/ size < 0
    THEN [s EXCEPT !.error = "range"]
  ELSE [s EXCEPT
          !.umem = [x \in DOMAIN s.umem |->
                      IF x >= user_ptr /\ x < user_ptr + size
                      THEN s.kmem[kernel_ptr + (x - user_ptr)]
                      ELSE s.umem[x]],
          !.copies = Append(@, [user_ptr |-> user_ptr, kernel_ptr |-> kernel_ptr,
                                size |-> size])]

\* The second loop of translate_iovec_in, from entry i (from 1).
RECURSIVE translate_iovec_each(_, _, _, _, _)
translate_iovec_each(s, kernel_iov, user_iovecs, direction, i) ==
  IF s.error # "none" THEN s
  ELSE IF i > Len(user_iovecs) THEN [s EXCEPT !.ptr = kernel_iov]
  ELSE
    LET base == user_iovecs[i].base
        len == user_iovecs[i].len
        b == IF direction = "in" THEN copy_in(s, base, len)
             ELSE alloc_syscall_buffer(s, len)
        at == kernel_iov + (i - 1) * IOVEC_SIZE
    IN IF b.error # "none" THEN b
       ELSE translate_iovec_each(
              [b EXCEPT
                 !.kmem = SetUint32(SetUint32(b.kmem, at, b.ptr), at + 4, len),
                 !.iovecs = Append(@, [base |-> base, len |-> len,
                                       kernel_base |-> b.ptr])],
              kernel_iov, user_iovecs, direction, i + 1)

translate_iovec_in(s, user_iov_ptr, iovcnt, direction) ==
  IF s.error # "none" THEN s
  ELSE IF user_iov_ptr = 0 \/ iovcnt = 0 THEN [s EXCEPT !.ptr = 0, !.iovecs = <<>>]
  ELSE
    LET user_iovecs ==
          [i \in 1 .. iovcnt |->
             [base |-> GetUint32(s.umem, user_iov_ptr + (i - 1) * IOVEC_SIZE),
              len |-> GetUint32(s.umem, user_iov_ptr + (i - 1) * IOVEC_SIZE + 4)]]
        a == alloc_syscall_buffer(s, iovcnt * IOVEC_SIZE)
    IN translate_iovec_each([a EXCEPT !.iovecs = <<>>], a.ptr, user_iovecs,
                            direction, 1)

\* copy_iovec_out copying every buffer in full, whatever the kernel returned.
RECURSIVE copy_iovec_out_full(_, _, _, _)
copy_iovec_out_full(s, user_iovecs, remaining, i) ==
  IF i > Len(user_iovecs) \/ s.error # "none" THEN s
  ELSE copy_iovec_out_full(
         copy_out(s, user_iovecs[i].base, user_iovecs[i].kernel_base,
                  user_iovecs[i].len),
         user_iovecs, remaining, i + 1)

RECURSIVE copy_iovec_out(_, _, _, _)
copy_iovec_out(s, user_iovecs, remaining, i) ==
  IF i > Len(user_iovecs) \/ remaining <= 0 \/ s.error # "none" THEN s
  ELSE LET to_copy == Min(user_iovecs[i].len, remaining)
       IN copy_iovec_out(
            copy_out(s, user_iovecs[i].base, user_iovecs[i].kernel_base, to_copy),
            user_iovecs, remaining - to_copy, i + 1)

(***************************************************************************)
(* make_syscall_wrapper.  Argument positions count from 0 as in the        *)
(* source; orig and args are sequences, so position i is element i + 1.    *)
(***************************************************************************)

\* typeof size === 'number': every size SYSCALL_POINTER_MAP gives is a number
IsNumber(size) == size # Undefined

\* if (size): neither undefined nor 0
Truthy(size) == size # Undefined /\ size # 0

\* args[i] = <the pointer the helper returned>
SetArg(s, i) == IF s.error # "none" THEN s ELSE [s EXCEPT !.args[i + 1] = s.ptr]

\* The body of the input loop of cases 2 to 6 for position i.  The branch
\* "else if (size !== undefined)" needs a size that is not a number and is
\* never taken.
translate_input(s, map, i) ==
  IF i \notin map.in THEN s
  ELSE IF i \in map.string THEN SetArg(copy_string_in(s, s.orig[i + 1]), i)
  ELSE IF IsNumber(map.sizes[i])
    THEN SetArg(copy_in(s, s.orig[i + 1], map.sizes[i]), i)
  ELSE s

RECURSIVE translate_inputs(_, _, _, _)
translate_inputs(s, map, i, n) ==
  IF i >= n THEN s
  ELSE translate_inputs(translate_input(s, map, i), map, i + 1, n)

\* case 1, before the kernel entry
wrapper1_in(s, map) ==
  IF 0 \notin map.in THEN s
  ELSE IF 0 \in map.string THEN SetArg(copy_string_in(s, s.orig[1]), 0)
  ELSE IF Truthy(map.sizes[0]) THEN SetArg(copy_in(s, s.orig[1], map.sizes[0]), 0)
  ELSE s

\* case 3, before the kernel entry
wrapper3_in(s, map) ==
  IF map.iovec # NoIovec
  THEN SetArg(translate_iovec_in(s, s.orig[map.iovec.arg + 1],
                                 s.orig[map.iovec.count_arg + 1],
                                 map.iovec.direction),
              map.iovec.arg)
  ELSE translate_inputs(s, map, 0, 3)

\* What the wrapper of the call's arity does before the kernel entry.
wrapper_in(s) ==
  LET map == SYSCALL_POINTER_MAP(s.nr)
      n == Len(s.orig)
      r == reset_syscall_buffer(s)
  IN IF ~s.isolated \/ n = 0 \/ n > 6 THEN s
     ELSE IF ~map.listed THEN r
     ELSE IF n = 1 THEN wrapper1_in(r, map)
     ELSE IF n = 3 THEN wrapper3_in(r, map)
     ELSE translate_inputs(r, map, 0, n)

\* The body of the output loop of cases 2, 5 and 6 for position i.
copy_output(s, map, i) ==
  IF i \in map.out /\ IsNumber(map.sizes[i])
  THEN copy_out(s, s.orig[i + 1], s.args[i + 1], map.sizes[i])
  ELSE s

\* The body of the output loop of case 3 for position i.
copy_output3(s, map, i) ==
  IF i \notin map.out THEN s
  ELSE IF s.nr = SYS_read \/ s.nr = SYS_pread64 \/ s.nr = SYS_getdents64
    THEN IF s.result > 0
         THEN copy_out(s, s.orig[i + 1], s.args[i + 1], s.result)
         ELSE s
  ELSE IF Truthy(map.sizes[i])
    THEN copy_out(s, s.orig[i + 1], s.args[i + 1], map.sizes[i])
  ELSE s

\* The body of the output loop of case 4 for position i.
copy_output4(s, map, i) ==
  IF i \notin map.out THEN s
  ELSE IF s.nr = SYS_readlinkat /\ i = 2 /\ s.result > 0
    THEN copy_out(s, s.orig[i + 1], s.args[i + 1], s.result)
  ELSE IF Truthy(map.sizes[i])
    THEN copy_out(s, s.orig[i + 1], s.args[i + 1], map.sizes[i])
  ELSE s

RECURSIVE copy_outputs(_, _, _, _)
copy_outputs(s, map, i, n) ==
  IF i >= n THEN s
  ELSE copy_outputs(
         IF n = 3 THEN copy_output3(s, map, i)
         ELSE IF n = 4 THEN copy_output4(s, map, i)
         ELSE copy_output(s, map, i),
         map, i + 1, n)

\* case 1, after the kernel entry
wrapper1_out(s, map) ==
  IF 0 \in map.out /\ Truthy(map.sizes[0])
  THEN copy_out(s, s.orig[1], s.args[1], map.sizes[0])
  ELSE s

\* case 3, after the kernel entry
wrapper3_out(s, map) ==
  IF map.iovec # NoIovec /\ map.iovec.direction = "out" /\ s.result > 0
  THEN copy_iovec_out(s, s.iovecs, s.result, 1)
  ELSE copy_outputs(s, map, 0, 3)

\* A wrapper that copies out whether or not the runner has a user memory.
wrapper_out_unconditional(s) ==
  LET map == SYSCALL_POINTER_MAP(s.nr)
      n == Len(s.orig)
  IN IF n = 0 \/ n > 6 \/ ~map.listed THEN s
     ELSE IF n = 1 THEN wrapper1_out(s, map)
     ELSE IF n = 3 THEN wrapper3_out(s, map)
     ELSE copy_outputs(s, map, 0, n)

\* What the wrapper of the call's arity does after the kernel entry.
wrapper_out(s) ==
  LET map == SYSCALL_POINTER_MAP(s.nr)
      n == Len(s.orig)
  IN IF ~s.isolated \/ n = 0 \/ n > 6 \/ ~map.listed THEN s
     ELSE IF n = 1 THEN wrapper1_out(s, map)
     ELSE IF n = 3 THEN wrapper3_out(s, map)
     ELSE copy_outputs(s, map, 0, n)

(***************************************************************************)
(* The kernel entry (wasm_syscall_0 .. wasm_syscall_6 of vmlinux).  It     *)
(* works on kernel memory only, at the addresses it is handed: a read-like *)
(* call that returns N > 0 has produced N bytes at its buffer, a call      *)
(* that fills a structure and returns 0 has written the whole structure,   *)
(* readv scatters over the iovec array it finds at its second argument.    *)
(***************************************************************************)
KernelStore(kmem, p, n) ==
  [x \in DOMAIN kmem |->
     IF p # 0 /\ x >= p /\ x < p + n THEN ResponseByte(x - p) ELSE kmem[x]]

RECURSIVE KernelScatter(_, _, _, _, _, _)
KernelScatter(kmem, iov, i, cnt, remaining, produced) ==
  IF i >= cnt \/ remaining <= 0 THEN kmem
  ELSE LET base == GetUint32(kmem, iov + i * IOVEC_SIZE)
           len == GetUint32(kmem, iov + i * IOVEC_SIZE + 4)
           c == Min(len, remaining)
       IN KernelScatter(
            [x \in DOMAIN kmem |->
               IF x >= base /\ x < base + c
               THEN ResponseByte(produced + (x - base)) ELSE kmem[x]],
            iov, i + 1, cnt, remaining - c, produced + c)

RECURSIVE KernelIovTotal(_, _, _, _)
KernelIovTotal(kmem, iov, i, cnt) ==
  IF i >= cnt THEN 0
  ELSE GetUint32(kmem, iov + i * IOVEC_SIZE + 4) + KernelIovTotal(kmem, iov, i + 1, cnt)

\* Position of the buffer and of its capacity, for the calls that return a
\* byte count.
CountedBuffer(nr) ==
  CASE nr = SYS_read \/ nr = SYS_pread64 \/ nr = SYS_getdents64 ->
         [buf |-> 1, count |-> 2]
    [] nr = SYS_readlinkat -> [buf |-> 2, count |-> 3]
    [] nr = SYS_getcwd -> [buf |-> 0, count |-> 1]
    [] OTHER -> [buf |-> Undefined, count |-> Undefined]

Failure == 0 - 1

UpTo(n) == {Failure, 0} \cup ({1, 2, n} \cap (1 .. n))

KernelResults(s) ==
  LET cb == CountedBuffer(s.nr)
  IN IF cb.buf # Undefined
       THEN IF s.args[cb.buf + 1] = 0 THEN {Failure} ELSE UpTo(s.args[cb.count + 1])
     ELSE IF s.nr = SYS_readv
       THEN IF s.args[2] = 0 THEN {Failure, 0}
            ELSE LET total == KernelIovTotal(s.kmem, s.args[2], 0, s.args[3])
                 IN UpTo(total) \cup ({total - 1} \cap (1 .. total))
     ELSE IF s.nr = SYS_write \/ s.nr = SYS_pwrite64 THEN {Failure, s.args[3]}
     ELSE {Failure, 0}

RECURSIVE KernelFill(_, _, _, _)
KernelFill(kmem, s, map, i) ==
  IF i >= Len(s.args) THEN kmem
  ELSE KernelFill(
         IF i \in map.out \cup map.inout
         THEN KernelStore(kmem, s.args[i + 1], map.sizes[i]) ELSE kmem,
         s, map, i + 1)

KernelMemoryAfter(s, result) ==
  LET cb == CountedBuffer(s.nr)
  IN IF result < 0 THEN s.kmem
     ELSE IF cb.buf # Undefined THEN KernelStore(s.kmem, s.args[cb.buf + 1], result)
     ELSE IF s.nr = SYS_readv
       THEN KernelScatter(s.kmem, s.args[2], 0, s.args[3], result, 0)
     ELSE KernelFill(s.kmem, s, SYSCALL_POINTER_MAP(s.nr), 0)

(***************************************************************************)
(* Bounded inputs of the translator: one syscall, with the user memory it  *)
(* refers to.  A call is drawn with the argument list of its Linux         *)
(* signature.  pathLen is the length of the string at PathAddr (with       *)
(* pathLen = UMemSize - PathAddr no zero byte follows PathAddr), len1 and  *)
(* len2 the lengths of the two iovec entries at IovAddr.                   *)
(***************************************************************************)
ShortPath == 6
Count == 5
Fd == 3
LeftOver == 5      \* syscall_buffer_current left by an earlier syscall

Lens == {0, 3, ScratchSize \div 2}

Call(nr, orig) == [nr |-> nr, orig |-> orig, pathLen |-> ShortPath, len1 |-> 0, len2 |-> 0]

PathCalls ==
  {[nr |-> c[1], orig |-> c[2], pathLen |-> n, len1 |-> 0, len2 |-> 0] :
     c \in {<<SYS_openat, <<Fd, PathAddr, 0, 0>>>>,
            <<SYS_newfstatat, <<Fd, PathAddr, OutAddr, 0>>>>,
            <<SYS_readlinkat, <<Fd, PathAddr, BufA, Count>>>>,
            <<SYS_mkdirat, <<Fd, PathAddr, 0>>>>,
            <<SYS_unlinkat, <<Fd, PathAddr, 0>>>>,
            <<SYS_renameat, <<Fd, PathAddr, Fd, Path2Addr>>>>,
            <<SYS_chdir, <<PathAddr>>>>,
            <<SYS_faccessat, <<Fd, PathAddr, 0, 0>>>>,
            <<SYS_statx, <<Fd, PathAddr, 0, 0, OutAddr>>>>,
            <<SYS_execve, <<PathAddr, BufA, BufB>>>>},
     n \in {ShortPath, ScratchSize, UMemSize - PathAddr}}

IovecCalls ==
  {[nr |-> nr, orig |-> <<Fd, IovAddr, cnt>>, pathLen |-> ShortPath,
    len1 |-> l1, len2 |-> l2] :
     nr \in {SYS_readv, SYS_writev}, cnt \in 0 .. 2, l1 \in Lens, l2 \in Lens}

BufferCalls ==
  {Call(nr, <<Fd, b, c>>) :
     nr \in {SYS_read, SYS_write, SYS_getdents64}, b \in {0, BufA}, c \in {1, Count}}
  \cup
  {Call(nr, <<Fd, BufA, Count, 0>>) : nr \in {SYS_pread64, SYS_pwrite64}}

OtherCalls ==
  {Call(SYS_getpid, <<>>), Call(SYS_close, <<Fd>>),
   Call(SYS_chdir, <<0>>), Call(SYS_getcwd, <<BufA, Count>>),
   Call(SYS_fstat, <<Fd, OutAddr>>), Call(SYS_fstat, <<Fd, 0>>),
   Call(SYS_futex, <<BufA, 0, 1, 0, 0, 0>>),
   Call(SYS_set_tid_address, <<BufA>>),
   Call(SYS_clock_gettime, <<0, OutAddr>>),
   Call(SYS_nanosleep, <<BufA, OutAddr>>), Call(SYS_nanosleep, <<BufA, 0>>),
   Call(SYS_uname, <<OutAddr>>),
   Call(SYS_wait4, <<1, BufA, 0, OutAddr>>)}

SyscallInputs == PathCalls \cup IovecCalls \cup BufferCalls \cup OtherCalls

\* Without user memory the user module runs on kernel memory, so the caller's
\* data is in kernel memory.
ScStart(c, isolated, cur) ==
  LET user == InitialUserMemory(c.pathLen, c.len1, c.len2)
  IN [pc |-> "entry", isolated |-> isolated, nr |-> c.nr, orig |-> c.orig,
      args |-> c.orig,
      umem |-> IF isolated THEN user ELSE <<>>,
      kmem |-> IF isolated THEN InitialKernelMemory
               ELSE [a \in 0 .. (KMemSize - 1) |->
                       IF a < UMemSize THEN user[a] ELSE KernelByte(a)],
      cur |-> cur, cur0 |-> cur, ptr |-> 0, allocs |-> <<>>, copyins |-> <<>>,
      copies |-> <<>>, iovecs |-> <<>>, result |-> 0, returned |-> Unset,
      error |-> "none"]

InitSyscall ==
  /\ InitSub
  /\ np = NpStart
  /\ tl = TlIdle
  /\ rl = RlStart
  /\ sc \in {ScStart(c, isolated, cur) :
               c \in SyscallInputs, isolated \in BOOLEAN, cur \in {0, LeftOver}}

\* The wrapper up to its call of the kernel entry; an exception ends the
\* syscall before the kernel is entered, and a terminator search that finds
\* no zero byte never leaves its loop ("hung").
wrapper_entry ==
  /\ sc.pc = "entry"
  /\ LET s == wrapper_in(sc)
     IN sc' = [s EXCEPT !.pc = IF s.error = "none" THEN "kernel"
                               ELSE IF s.error = "hang" THEN "hung"
                               ELSE "failed"]
  /\ UNCHANGED <<subVars, np, tl, rl>>

kernel_syscall ==
  /\ sc.pc = "kernel"
  /\ \E result \in KernelResults(sc) :
       sc' = [sc EXCEPT !.pc = "returned", !.result = result,
                        !.kmem = KernelMemoryAfter(sc, result)]
  /\ UNCHANGED <<subVars, np, tl, rl>>

\* The wrapper from the return of the kernel entry to its own return.
wrapper_return ==
  /\ sc.pc = "returned"
  /\ LET s == wrapper_out(sc)
     IN sc' = [s EXCEPT !.pc = IF s.error = "none" THEN "done" ELSE "failed",
                        !.returned = IF s.error = "none" THEN s.result ELSE Unset]
  /\ UNCHANGED <<subVars, np, tl, rl>>

NextSyscall == wrapper_entry \/ kernel_syscall \/ wrapper_return

SpecSyscall == InitSyscall /\ [][NextSyscall]_vars

(***************************************************************************)
(* Properties of the host-call bridge (SpecBridge).                        *)
(***************************************************************************)

HostCallMethods ==
  {"console_read", "net_open", "net_write", "net_read", "net_poll",
   "net_close", "fs_save", "fs_load", "fs_delete", "fs_list"}

\* The controller still has a store to the result slot of r's messenger to do.
ResultStorePending(r, fam) ==
  \E i \in 1 .. Len(ctlOps) :
    ctlOps[i].op = "store" /\ ctlOps[i].r = r /\ ctlOps[i].fam = fam
    /\ ctlOps[i].slot = 2

\* C1: for every host call with a result slot, the runner reads the result
\* slot only after the controller has written it, in every interleaving.
C1_ResultReadAfterWritten ==
  [][\A r \in Runners :
       messenger_load_result(r) => ~ResultStorePending(r, FamOf(hcall[r].method))]_vars

\* A request of runner r on the messenger of family fam has been posted and
\* the controller has not yet stored its status.
InFlight(r, fam) ==
  \/ \E i \in 1 .. Len(outbox[r]) :
       outbox[r][i].method \in HostCallMethods /\ FamOf(outbox[r][i].method) = fam
  \/ \E m \in pending : m.from = r /\ FamOf(m.method) = fam
  \/ \E i \in 1 .. Len(ctlOps) :
       ctlOps[i].op = "store" /\ ctlOps[i].r = r /\ ctlOps[i].fam = fam
       /\ ctlOps[i].slot = 1

\* C2: on every messenger of a live runner the status slot is -1 exactly
\* while a posted request has not been completed by the controller; no
\* completion stores -1.
C2_StatusPendingIffInFlight ==
  \A r \in Runners : Running(r) =>
    \A fam \in Fams : (Status(r, fam) = Pending) <=> InFlight(r, fam)

(***************************************************************************)
(* Properties of the catalogue and the hand-off (Spec).                    *)
(***************************************************************************)

\* C3 as claimed: the serialize slot of a runner is non-zero iff the runner
\* is not parked in its serialize wait.
C3_NonZeroIffRunnable ==
  \A r \in Runners : Running(r) => ((locks[r] # 0) <=> (pc[r] # "ser_asleep"))

\* C3 as amended: the serialize slot of a runner holds 0 or 1.  It becomes
\* non-zero only by the controller's store in lock_notify for that runner
\* and returns to zero only by the runner's own store in lock_wait, which
\* every return from the serialize wait performs.  A runner parks in its
\* serialize wait only on a slot of zero, and a parked runner has a
\* non-zero slot only between the controller's store and the notify that
\* follows it.
C3_SlotSetByWakeClearedByReset ==
  /\ [](\A r \in Runners :
          /\ locks[r] \in {0, 1}
          /\ (Running(r) /\ pc[r] = "ser_asleep" /\ locks[r] # 0) =>
               \E i \in 1 .. Len(ctlOps) :
                 ctlOps[i].op = "lock_notify" /\ ctlOps[i].r = r)
  /\ [][\A r \in Runners :
          /\ (locks[r] = 0 /\ locks'[r] # 0) =>
               NextOp("lock_store") /\ Head(ctlOps).r = r
          /\ (locks[r] # 0 /\ locks'[r] = 0) =>
               Running(r) /\ pc[r] = "ser_reset" /\ pc'[r] = "ser_read"
          /\ (pc[r] = "ser_wait" /\ pc'[r] = "ser_asleep") => locks[r] = 0
          /\ (pc[r] = "ser_reset" /\ pc'[r] # "ser_reset" /\ Running(r)')
               => locks'[r] = 0]_vars

\* A runner that returned from its serialize wait with its slot reset to 0
\* is executing, and the controller has stored the wake of a later hand-off
\* into its slot.
C3_Witness ==
  \E r \in Runners :
    /\ Running(r) /\ pc[r] = "run" /\ expect[r] # Unset
    /\ locks[r] = 1 /\ lastStored[r][2] > wokeBy[r][2]

C5_UserModuleOnIsolatedMemory ==
  \A r \in Runners :
    exec_memory[r] # "none" =>
      exec_memory[r] = "user_memory" /\ user_memory[r] # "null"

(***************************************************************************)
(* Properties of the syscall translator (SpecSyscall).                     *)
(***************************************************************************)

\* The scratch region of kernel memory holds [p, p + len).
InScratch(p, len) ==
  p >= SyscallBufferOffset /\ p + len <= SyscallBufferOffset + ScratchSize

\* The length of the buffer at position i: the value of the count argument
\* for write(fd, buf, count) and pwrite64(fd, buf, count, offset), the size
\* of the structure otherwise.
InputLength(s, i) ==
  IF s.nr = SYS_write \/ s.nr = SYS_pwrite64 THEN s.orig[3]
  ELSE SYSCALL_POINTER_MAP(s.nr).sizes[i]

\* The output positions whose length is the size of a structure (the other
\* output positions are buffers whose length is a count argument).
FixedOutputs(nr) ==
  IF CountedBuffer(nr).buf # Undefined THEN {}
  ELSE {i \in SYSCALL_POINTER_MAP(nr).out :
          SYSCALL_POINTER_MAP(nr).sizes[i] # Undefined}

\* C6: on a runner with isolated user memory, once copy-in is done, for
\* every non-string input pointer of the descriptor the kernel is handed a
\* scratch address whose len bytes equal the len bytes at the user address,
\* len being the structure size or the count argument (write, pwrite64).
C6_CopyInBytesEqual ==
  (sc.pc = "kernel" /\ sc.isolated) =>
    \A i \in SYSCALL_POINTER_MAP(sc.nr).in \ SYSCALL_POINTER_MAP(sc.nr).string :
      (sc.orig[i + 1] # 0 /\ InputLength(sc, i) # Undefined) =>
        /\ InScratch(sc.args[i + 1], InputLength(sc, i))
        /\ \A k \in 0 .. (InputLength(sc, i) - 1) :
             sc.kmem[sc.args[i + 1] + k] = sc.umem[sc.orig[i + 1] + k]

\* C7: on a runner with isolated user memory, for every output pointer of
\* fixed length L the kernel is handed an address inside the scratch region
\* in place of the user pointer, and when the wrapper returns the L bytes at
\* the user destination equal the L bytes at that scratch address.
C7_FixedOutputThroughScratch ==
  (sc.pc = "done" /\ sc.isolated) =>
    \A i \in FixedOutputs(sc.nr) :
      sc.orig[i + 1] # 0 =>
        LET L == SYSCALL_POINTER_MAP(sc.nr).sizes[i]
        IN /\ InScratch(sc.args[i + 1], L)
           /\ \A k \in 0 .. (L - 1) :
                sc.umem[sc.orig[i + 1] + k] = sc.kmem[sc.args[i + 1] + k]

\* C8: a read-like syscall (read, pread64, getdents64, readlinkat) made
\* through the wrapper of its own arity on an isolated runner, whose kernel
\* entry returned N > 0, has copied exactly N bytes to the user buffer.
C8_ReadLikeCopiesResultBytes ==
  (/\ sc.pc = "done" /\ sc.isolated
   /\ sc.nr \in {SYS_read, SYS_pread64, SYS_getdents64, SYS_readlinkat}
   /\ sc.result > 0) =>
     LET buf == sc.orig[CountedBuffer(sc.nr).buf + 1]
     IN /\ Len(sc.copies) = 1
        /\ sc.copies[1].user_ptr = buf
        /\ sc.copies[1].size = sc.result

\* C9: within one syscall every scratch allocation that succeeds starts at
\* a multiple of 8 and ends within the scratch region; one that would pass
\* the end fails the syscall with the overflow error before the kernel is
\* entered; copy-in changes no kernel byte outside the region, and every
\* copy-in that succeeded moved all of its bytes.
C9_AllocationsAlignedAndBounded ==
  (sc.pc # "off" /\ sc.isolated) =>
    /\ \A n \in DOMAIN sc.allocs :
         LET a == sc.allocs[n]
         IN IF a.ok
            THEN a.offset % 8 = 0 /\ a.offset >= 0 /\ a.offset + a.size <= ScratchSize
            ELSE sc.pc = "failed" /\ sc.error = "overflow" /\ n = Len(sc.allocs)
    /\ sc.pc \in {"kernel", "failed"} =>
         /\ \A x \in DOMAIN sc.kmem :
              ~InScratch(x, 1) => sc.kmem[x] = KernelByte(x)
         /\ \A n \in DOMAIN sc.copyins :
              LET c == sc.copyins[n]
              IN c.ok =>
                   /\ InScratch(c.kernel_ptr, c.size)
                   /\ \A k \in 0 .. (c.size - 1) :
                        sc.kmem[c.kernel_ptr + k] = sc.umem[c.user_ptr + k]

\* C9 witness: a syscall whose first allocations succeeded and whose last
\* one overflowed the region.
C9_Witness ==
  /\ sc.pc = "failed" /\ sc.error = "overflow"
  /\ Len(sc.allocs) >= 2
  /\ sc.allocs[1].ok
  /\ Len(sc.copyins) >= 1

\* C10 as stated: a copy-in of zero bytes from a non-null user pointer
\* leaves the bump pointer at its previous value, aligned or not.
C10_ZeroLengthLeavesPointer ==
  sc.pc # "off" =>
    \A n \in DOMAIN sc.copyins :
      sc.copyins[n].size = 0 => sc.copyins[n].after = sc.copyins[n].before

\* C10 amended: a copy-in of zero bytes from a non-null user pointer leaves
\* the bump pointer at its previous value rounded up to the next multiple
\* of 8, which is the previous value only when that was already aligned.
C10_ZeroLengthAlignsPointer ==
  sc.pc # "off" =>
    \A n \in DOMAIN sc.copyins :
      sc.copyins[n].size = 0 =>
        /\ sc.copyins[n].after % 8 = 0
        /\ sc.copyins[n].after >= sc.copyins[n].before
        /\ sc.copyins[n].after < sc.copyins[n].before + 8

\* C10 witness: a zero-length copy-in was made while the bump pointer was
\* not a multiple of 8.
C10_Witness ==
  /\ sc.pc = "kernel"
  /\ \E n \in DOMAIN sc.copyins :
       /\ sc.copyins[n].size = 0 /\ sc.copyins[n].user_ptr # 0
       /\ sc.copyins[n].before % 8 # 0

\* The positions the descriptor of nr names as string inputs.
StringInputs(nr) == SYSCALL_POINTER_MAP(nr).in \cap SYSCALL_POINTER_MAP(nr).string

\* No zero byte within budget bytes from p (or up to the end of user memory).
Unterminated(umem, p, budget) ==
  \A k \in 0 .. (budget - 1) : p + k < UMemSize => umem[p + k] # 0

\* C11: on a runner with isolated user memory, a syscall with a string
\* input that has no zero byte within the scratch budget is failed by the
\* wrapper; the terminator search does not run forever.
C11_UnterminatedStringFails ==
  (/\ sc.pc \notin {"off", "entry"} /\ sc.isolated
   /\ \E i \in StringInputs(sc.nr) :
        i < Len(sc.orig) /\ sc.orig[i + 1] # 0
        /\ Unterminated(sc.umem, sc.orig[i + 1], ScratchSize)) =>
     sc.pc = "failed"

\* C12: on a runner with no user memory the kernel entry is handed the
\* caller's arguments, the scratch pointer is not moved, nothing is
\* allocated or copied, and the wrapper returns what the kernel returned.
C12_PassThroughWithoutUserMemory ==
  (sc.pc # "off" /\ ~sc.isolated) =>
    /\ sc.args = sc.orig
    /\ sc.cur = sc.cur0
    /\ sc.allocs = <<>> /\ sc.copyins = <<>> /\ sc.copies = <<>>
    /\ sc.error = "none" /\ sc.pc \notin {"failed", "hung"}
    /\ sc.pc = "kernel" =>
         \A a \in DOMAIN sc.kmem : a >= UMemSize => sc.kmem[a] = KernelByte(a)
    /\ sc.pc = "done" => sc.returned = sc.result

\* C12 witness: a six-argument call on a runner without user memory has
\* returned, the scratch pointer still where an earlier syscall left it.
C12_Witness ==
  /\ sc.pc = "done" /\ ~sc.isolated
  /\ Len(sc.orig) = 6 /\ sc.cur = LeftOver /\ sc.returned = 0

\* Response bytes that precede those of iovec j, and the bytes iovec j
\* receives, when n bytes are returned: min(len_j, what is left).
RECURSIVE IovBefore(_, _, _)
IovBefore(iovecs, j, n) ==
  IF j = 1 THEN 0
  ELSE LET b == IovBefore(iovecs, j - 1, n)
       IN b + Min(iovecs[j - 1].len, n - b)

IovShare(iovecs, j, n) == Min(iovecs[j].len, n - IovBefore(iovecs, j, n))

\* C13: when readv returns N > 0 on an isolated runner, user buffer j holds
\* the next min(len_j, remaining) response bytes, in iovec order, and every
\* other byte of user memory is as it was before the syscall.
C13_ReadvScattersResultBytes ==
  (sc.pc = "done" /\ sc.isolated /\ sc.nr = SYS_readv /\ sc.result > 0) =>
    LET iov == sc.iovecs
        before == InitialUserMemory(ShortPath, GetUint32(sc.umem, IovAddr + 4),
                                    GetUint32(sc.umem, IovAddr + IOVEC_SIZE + 4))
        Written(a) == \E j \in DOMAIN iov :
                        a >= iov[j].base /\ a < iov[j].base + IovShare(iov, j, sc.result)
    IN /\ Len(iov) = sc.orig[3]
       /\ \A j \in DOMAIN iov :
            \A k \in 0 .. (IovShare(iov, j, sc.result) - 1) :
              /\ sc.umem[iov[j].base + k] = ResponseByte(IovBefore(iov, j, sc.result) + k)
              /\ sc.umem[iov[j].base + k] = sc.kmem[iov[j].kernel_base + k]
       /\ \A a \in DOMAIN sc.umem : ~Written(a) => sc.umem[a] = before[a]

\* C13 witness: readv over two buffers returned one byte less than they
\* hold, so the second buffer was filled in part.
C13_Witness ==
  /\ sc.pc = "done" /\ sc.isolated /\ sc.nr = SYS_readv
  /\ Len(sc.iovecs) = 2 /\ sc.iovecs[1].len > 0 /\ sc.iovecs[2].len > 1
  /\ sc.result = sc.iovecs[1].len + sc.iovecs[2].len - 1
  /\ Len(sc.copies) = 2 /\ sc.copies[2].size = sc.iovecs[2].len - 1

(***************************************************************************)
(* The steps of SpecProxy: client calls, WebSocket events, frames of the   *)
(* proxy and timers.  The proxy answers an open frame with opened or       *)
(* error, sends data frames for an id it has opened, and ends an id with   *)
(* one closed or error frame; it sends frames on the socket that carried   *)
(* the open frame, while that socket is open.                              *)
(***************************************************************************)
ProxyFrame == UNCHANGED <<subVars, sc, tl, rl>>

SocketsIn(states) == SocketsOf(np, states)

SentFrames == FramesSent(np)

Sendable(id, states) == SendableOn(np, id, states)

call_open(limit) ==
  /\ Len(np.opens) < limit
  /\ CreatesSocket(np) => Len(np.sockets) < MaxSockets
  /\ np' = open(np)
  /\ ProxyFrame

\* The microtask of an open() that did not have to wait.
open_microtask ==
  /\ Microtasks(np) # {}
  /\ np' = open_continue(np)
  /\ ProxyFrame

\* Events are dispatched when no microtask is left to run.
EventLoop == Microtasks(np) = {}

ws_onopen ==
  /\ EventLoop
  /\ \E w \in SocketsIn({"connecting"}) : np' = onopen(np, w)
  /\ ProxyFrame

\* The closing handshake of an open socket starts: readyState is CLOSING and
\* no event has been dispatched yet.
ws_closing ==
  /\ EventLoop
  /\ \E w \in SocketsIn({"open"}) : np' = [np EXCEPT !.sockets[w].rs = "closing"]
  /\ ProxyFrame

ws_onerror ==
  /\ EventLoop
  /\ \E w \in SocketsIn({"connecting", "open", "closing"}) : np' = onerror(np, w)
  /\ ProxyFrame

ws_onclose ==
  /\ EventLoop
  /\ \E w \in SocketsIn({"closing", "failed"}) : np' = onclose(np, w)
  /\ ProxyFrame

recv_opened ==
  /\ EventLoop
  /\ \E id \in OpenIds :
       /\ Sendable(id, {"requested"})
       /\ np' = handleMessage_opened([np EXCEPT !.remote[id].st = "open"], id)
  /\ ProxyFrame

recv_data ==
  /\ EventLoop
  /\ \E id \in OpenIds, payload \in Payloads :
       /\ Sendable(id, {"open"})
       /\ SentFrames < MaxChunks
       /\ np' = handleMessage_data([np EXCEPT !.remote[id].sent = @ + 1], id,
                                   uint8ArrayToBase64(payload), payload)
  /\ ProxyFrame

recv_closed ==
  /\ EventLoop
  /\ \E id \in OpenIds :
       /\ Sendable(id, {"open"})
       /\ np' = handleMessage_closed([np EXCEPT !.remote[id].st = "closed"], id)
  /\ ProxyFrame

recv_error ==
  /\ EventLoop
  /\ \E id \in OpenIds, msg \in ErrorTexts :
       /\ Sendable(id, {"requested", "open"})
       /\ np' = handleMessage_error([np EXCEPT !.remote[id].st = "closed"], id, msg)
  /\ ProxyFrame

timer_fires ==
  /\ EventLoop
  /\ \E c \in DOMAIN np.opens :
       /\ np.opens[c].timer = "armed"
       /\ np' = timeout(np, c)
  /\ ProxyFrame

call_onData ==
  /\ \E id \in Present(np) :
       ~np.connections[id].onData /\ np' = onData(np, id)
  /\ ProxyFrame

call_onClose ==
  /\ \E id \in Present(np) :
       ~np.connections[id].onClose /\ np' = onClose(np, id)
  /\ ProxyFrame

call_onError ==
  /\ \E id \in Present(np) :
       ~np.connections[id].onError /\ np' = onError(np, id)
  /\ ProxyFrame

call_readBuffered ==
  /\ \E id \in Present(np) :
       np.connections[id].buffer # <<>> /\ np' = readBuffered(np, id)
  /\ ProxyFrame

call_close ==
  /\ \E id \in Present(np) : np' = close(np, id)
  /\ ProxyFrame

call_disconnect ==
  /\ np' = disconnect(np)
  /\ ProxyFrame

NextProxy ==
  \/ call_open(MaxOpens) \/ open_microtask
  \/ ws_onopen \/ ws_closing \/ ws_onerror \/ ws_onclose
  \/ recv_opened \/ recv_data \/ recv_closed \/ recv_error \/ timer_fires
  \/ call_onData \/ call_onClose \/ call_readBuffered
  \/ call_close \/ call_disconnect

SpecProxy == Init /\ [][NextProxy]_vars

\* The channel of the relay client alone: open() calls, disconnect() and the
\* events of the WebSockets, with no frame answered by the proxy.
NextChannel ==
  \/ call_open(MaxConnects) \/ open_microtask
  \/ ws_onopen \/ ws_closing \/ ws_onerror \/ ws_onclose \/ call_disconnect

SpecChannel == Init /\ [][NextChannel]_vars

(***************************************************************************)
(* Claims about the relay client.                                          *)
(***************************************************************************)

\* C14: a connection id is never pending and in the connection table at the
\* same time, no two open() calls are given the same id, and an open that an
\* opened or error frame has resolved or rejected is no longer pending (the
\* id leaves the pending set in the step that settles the open).
C14_PendingAndOpenDisjoint ==
  /\ \A id \in OpenIds :
       ~(id \in np.pendingOpens /\ np.connections[id].present)
  /\ \A c, d \in DOMAIN np.opens :
       (c # d /\ np.opens[c].id # 0) => np.opens[c].id # np.opens[d].id
  /\ \A c \in DOMAIN np.opens :
       np.opens[c].outcome \in {"resolved", "error"}
         => np.opens[c].id \notin np.pendingOpens

\* C14 witness: one open resolved by an opened frame with its record in the
\* table, another rejected by an error frame, under different ids.
C14_Witness ==
  \E c, d \in DOMAIN np.opens :
    /\ np.opens[c].outcome = "resolved"
    /\ np.connections[np.opens[c].id].present
    /\ np.opens[d].outcome = "error"
    /\ np.opens[d].id # 0

\* C15: once the client has handled a closed frame for an open id, the
\* connection table holds no record for that id.  A record is marked closed
\* by that frame only (the close event of the channel marks records and
\* clears the table in one step), so no record in the table is marked closed.
C15_ClosedFrameRemovesRecord ==
  \A id \in OpenIds :
    np.connections[id].present => ~np.connections[id].closed

\* The open() calls whose promise was rejected.
Rejected(c) ==
  np.opens[c].outcome \in {"connect_failed", "send_failed", "error",
                           "closed", "timeout"}

\* C16: after the close event of the channel, every open that was pending
\* is rejected, and every id that was pending or open reports
\* isClosed(id) = TRUE and fails every write from then on: write throws at
\* the relay client and net_write stores the error status at the controller.
C16_ChannelCloseFailsEverything ==
  \A id \in np.lost :
    /\ \A c \in DOMAIN np.opens :
         (np.opens[c].id = id /\ np.opens[c].outcome # "resolved")
           => Rejected(c)
    /\ isClosed(np, id)
    /\ write_throws(np, id)
    /\ net_write_status(np, id) = 1

\* C16 witness: the close event of the channel was handled with one
\* connection open and one open pending.
C16_Witness ==
  /\ \E c, d \in DOMAIN np.opens :
       /\ np.opens[c].outcome = "resolved" /\ np.opens[c].id \in np.lost
       /\ np.opens[d].outcome = "closed" /\ np.opens[d].id \in np.lost
  /\ \E w \in DOMAIN np.sockets : np.sockets[w].rs = "closed"

\* C17: over the lifetime of a connection its onClose callback is called at
\* most once, whether the connection ends by a closed frame, by the close
\* event of the channel, or by a closed frame followed by that close event.
C17_OnCloseCalledOnce ==
  \A id \in OpenIds : np.closeCalls[id] <= 1

\* The WebSockets that are open or being connected.
Live == {w \in DOMAIN np.sockets : np.sockets[w].rs \in {"connecting", "open"}}

\* C18: at any time at most one WebSocket of the relay client is open or
\* being connected.
C18_OneChannel == Cardinality(Live) <= 1

\* C19: for every connection with a data callback, the chunks handed to
\* the callback are the payloads of the data frames received for the id, in
\* arrival order, none lost and none twice, and nothing stays buffered; for a
\* connection without a callback the buffer holds exactly those payloads in
\* arrival order, so that a registration hands all of them over before any
\* later frame is delivered.  (A record that has been removed took its
\* buffer with it: either nothing was ever handed over or everything was.)
C19_DataInArrivalOrder ==
  \A id \in OpenIds :
    LET conn == np.connections[id] IN
      /\ (conn.present /\ conn.onData)
           => (np.delivered[id] = np.received[id] /\ conn.buffer = <<>>)
      /\ (conn.present /\ ~conn.onData)
           => (np.delivered[id] = <<>> /\ conn.buffer = np.received[id])
      /\ ~conn.present
           => (np.delivered[id] = <<>> \/ np.delivered[id] = np.received[id])

\* C19, with the chunks a client took by readBuffered set apart: the bytes
\* readBuffered returned are the payloads of the first frames received for
\* the id, and the chunks handed to the data callback followed by the
\* chunks still buffered are the payloads of the frames received after
\* those, in arrival order, none lost and none twice.  With a callback
\* registered nothing is buffered; without one nothing has been handed to a
\* callback.  (A record that has been removed took its buffer with it.)
C19_DataInArrivalOrderAfterTaken ==
  \A id \in OpenIds :
    LET conn == np.connections[id]
        n == Len(np.received[id])
    IN \E k \in 0 .. n :
         /\ np.taken[id] = Flatten(SubSeq(np.received[id], 1, k))
         /\ conn.present
              => np.delivered[id] \o conn.buffer = SubSeq(np.received[id], k + 1, n)
         /\ (conn.present /\ conn.onData) => conn.buffer = <<>>
         /\ (conn.present /\ ~conn.onData) => np.delivered[id] = <<>>
         /\ ~conn.present
              => \/ np.delivered[id] = <<>>
                 \/ np.delivered[id] = SubSeq(np.received[id], k + 1, n)

\* C19 witness: of two different payloads received for a connection, the
\* first was buffered and taken by readBuffered, and the second was handed
\* to the data callback registered after that.
C19_Witness ==
  \E id \in OpenIds :
    /\ np.connections[id].present /\ np.connections[id].onData
    /\ Len(np.received[id]) = 2
    /\ np.received[id][1] # np.received[id][2]
    /\ np.taken[id] = np.received[id][1]
    /\ np.delivered[id] = <<np.received[id][2]>>

\* Two different payloads were buffered for a connection and both have been
\* handed to its data callback by the registration.
C19_FlushWitness ==
  \E id \in OpenIds :
    /\ np.connections[id].present /\ np.connections[id].onData
    /\ Len(np.delivered[id]) = 2
    /\ np.delivered[id][1] # np.delivered[id][2]
    /\ np.delivered[id] = np.received[id]

\* C20: once the timer of an open() has fired, the open is settled and its
\* id is not pending: it completed before (resolved by an opened frame or
\* rejected by an error frame), or it has been rejected.
C20_TimedOutOpenRejected ==
  \A c \in DOMAIN np.opens :
    np.opens[c].timer = "fired"
      => /\ np.opens[c].id \notin np.pendingOpens
         /\ np.opens[c].outcome \in {"resolved", "error"} \/ Rejected(c)

\* C20: the timer of an open that is still pending rejects it with the
\* timeout error and removes its id; the timer of a settled open changes
\* neither its outcome nor the connection table.
C20_TimerStep ==
  [][\A c \in DOMAIN np.opens :
       (np.opens[c].timer = "armed" /\ np' = timeout(np, c))
         => /\ np.opens[c].id \in np.pendingOpens
                => (np'.opens[c].outcome = "timeout"
                    /\ np.opens[c].id \notin np'.pendingOpens)
            /\ np.opens[c].outcome # "none"
                => (np'.opens[c].outcome = np.opens[c].outcome
                    /\ np'.connections = np.connections)]_vars

(***************************************************************************)
(* Claims about the host calls of the persistence and network families.    *)
(***************************************************************************)

\* The pending host calls of a method that complete in this step.
Completing(method) == {m \in pending \ pending' : m.method = method}

\* A step of the bridge: of a runner, a handler, a completion or a queued
\* memory operation, as opposed to an event of the embedding page.
BridgeStep ==
  pending' # pending \/ outbox' # outbox \/ ctlOps' # ctlOps \/ pc' # pc

\* C21: a save that completes with the success status leaves the bytes B of
\* the guest's buffer as the content of the path; no step of the bridge
\* changes the content other than a save or a delete that completes (the
\* page's own saveFile, deleteFile, clear and importAll are the other saves
\* and deletes of the path); a load that completes while the content is B,
\* with count >= |B| and a backend that answers, stores the success status
\* and |B| and writes B at the guest's buffer; and the guest whose load
\* found the saved content B, with count >= |B|, and read the success
\* status is returned |B| and has B at its buffer.
C21_SaveThenLoadRoundTrip ==
  [][/\ \A m \in Completing("fs_save") :
          ctlOps' = fs_status_ops(m.from, 0) => fsFiles' = SavedContent(m.a2)
     /\ (fsFiles' # fsFiles /\ BridgeStep)
          => (Completing("fs_save") \cup Completing("fs_delete")) # {}
     /\ \A m \in Completing("fs_load") :
          (/\ fsFiles # NoFile /\ m.a2 >= Len(fsFiles)
           /\ ctlOps' # fs_result_ops(m.from, 1, 0))
            => /\ ctlOps' = fs_result_ops(m.from, 0, Len(fsFiles))
               /\ SubSeq(kbuf'[m.from], 1, Len(fsFiles)) = fsFiles
     /\ \A r \in Runners :
          (/\ messenger_load_result(r)
           /\ hcall[r].method = "fs_load" /\ hstatus[r] = 0
           /\ hist.load[r] \in {SavedContent(len) : len \in Counts}
           /\ hcall[r].a2 >= Len(hist.load[r]))
            => /\ ret'[r] = Len(hist.load[r])
               /\ GuestBytes(r, ret'[r]) = hist.load[r]]_vars

NetMethods == {"net_open", "net_write", "net_read", "net_poll", "net_close"}
FsMethods == {"fs_save", "fs_load", "fs_delete", "fs_list"}

\* The backing service of a host call is not configured.
Unconfigured(m) ==
  \/ m.method \in NetMethods /\ ~netProxy
  \/ m.method \in FsMethods /\ ~fsPersist

\* What the guest gets back when its callback reads the status the
\* controller stored, with the result slot as the callback reset it.
ReturnOf(m, status) ==
  IF HasResultSlot(m.method) THEN ReturnOfResult(m, status, 0)
  ELSE ReturnOfStatus(m, status)

\* C22: the handler of a network or persistence host call whose backing
\* service is not configured stores the error status 1 first, in the step
\* that takes the message, and the value the callback returns for the stored
\* status is negative.
C22_UnconfiguredServiceFails ==
  [][\A r \in Runners :
       (/\ ctlOps = <<>> /\ outbox[r] # <<>>
        /\ outbox'[r] = Tail(outbox[r])
        /\ Head(outbox[r]).method \in NetMethods \cup FsMethods
        /\ Unconfigured(Head(outbox[r])))
         => /\ ctlOps' # <<>>
            /\ Head(ctlOps') = Store(r, FamOf(Head(outbox[r]).method), 1, 1)
            /\ ReturnOf(Head(outbox[r]), Head(ctlOps').val) < 0]_vars

\* C23: every status the controller stores into a network or persistence
\* messenger is 0, 1, 2 or 3; 2 is stored only into a persistence messenger
\* and 3 only into a network messenger.
C23_UniformStatusCode ==
  \A i \in DOMAIN ctlOps :
    (ctlOps[i].op = "store" /\ ctlOps[i].slot = 1
     /\ ctlOps[i].fam \in {"net", "fs"})
      => /\ ctlOps[i].val \in 0 .. 3
         /\ ctlOps[i].val = 2 => ctlOps[i].fam = "fs"
         /\ ctlOps[i].val = 3 => ctlOps[i].fam = "net"

(***************************************************************************)
(* Top level of one runner (linux-worker.js, message_callbacks.init):      *)
(*                                                                         *)
(*   vmlinux_setup().then(vmlinux_run).catch(wasm_error)                   *)
(*                  .then(user_executable_chain)                           *)
(*                                                                         *)
(* The kernel and the user program are Wasm code outside the repository:   *)
(* they are the environment, which enters the host through the callbacks   *)
(* wasm_panic, wasm_load_executable and wasm_user_mode_tail.  A syscall of *)
(* the user program is one step; the kernel may move its user stack        *)
(* pointer and TLS base in it.  An exec is a syscall in which the kernel   *)
(* calls wasm_load_executable and then ends with tail code -1.             *)
(***************************************************************************)
RunnerTypes == {"primary_cpu", "secondary_cpu", "task"}
Flows == {0 - 1, 0, 1, 2, 3, 4}

TlFrame == UNCHANGED <<subVars, sc, np, rl>>

\* flow & 1 and flow & 2 of wasm_user_mode_tail.
Bit1(flow) == flow % 2 = 1
Bit2(flow) == (flow \div 2) % 2 = 1

\* wasm_load_executable: a new module is compiled, the references to the
\* instance are released.
exec_load_executable(t) ==
  [t EXCEPT !.user_executable = t.loads + 1, !.loads = t.loads + 1,
            !.user_executable_instance = 0]

\* message_callbacks.init up to the start of the promise chain.
init_chain(type, has_executable) ==
  /\ tl.phase = "idle"
  /\ has_executable => type = "task"
  /\ \E ksp \in Regs, ktls \in Regs :
       LET t == [tl EXCEPT !.runner_type = type,
                           !.phase = "vmlinux_setup",
                           !.ksp = ksp, !.ktls = ktls]
       IN tl' = IF has_executable THEN exec_load_executable(t) ELSE t
  /\ TlFrame

\* wasm_error: with the kernel instantiated the error is handed to the
\* kernel's raise_exception export, otherwise it is thrown again and the
\* chain ends.
wasm_error(t, kind) ==
  IF t.vmlinux_instance
  THEN [t EXCEPT !.phase = "raise_exception", !.trap = kind]
  ELSE [t EXCEPT !.phase = "dormant", !.trap = kind]

\* vmlinux_setup: WebAssembly.instantiate of the kernel module resolves or
\* rejects; a rejection goes to .catch(wasm_error).
vmlinux_setup ==
  /\ tl.phase = "vmlinux_setup"
  /\ \E ok \in BOOLEAN :
       tl' = IF ok
             THEN [tl EXCEPT !.vmlinux_instance = TRUE, !.phase = "vmlinux_run"]
             ELSE wasm_error(tl, "error")
  /\ TlFrame

\* user_executable_setup: the imports of the new instance are built from the
\* kernel's user stack pointer and TLS base; the instantiation is awaited.
user_executable_chain(t) ==
  [t EXCEPT !.phase = "user_executable_setup", !.sp = t.ksp,
            !.tls_base = t.ktls, !.handlers = <<>>]

\* vmlinux_run of a task runner: ret_from_fork returns whether the clone
\* callback is to be called.  A runner created by clone() got its executable
\* with the init message and is told to call the callback; for the kernel
\* thread that becomes init the kernel loads the executable before it
\* returns.  _start and _start_secondary of the CPU runners never return.
vmlinux_run ==
  /\ tl.phase = "vmlinux_run"
  /\ tl.runner_type = "task"
  /\ \E ksp \in Regs, ktls \in Regs :
       LET k == [tl EXCEPT !.ksp = ksp, !.ktls = ktls]
           t == IF tl.user_executable = 0
                THEN exec_load_executable(k)
                ELSE [k EXCEPT !.should_call_clone_callback = TRUE]
       IN tl' = user_executable_chain(t)
  /\ TlFrame

\* wasm_panic fires while the kernel runs in vmlinux_run (boot, secondary
\* start, return-from-fork): Trap("panic") rejects the promise and
\* .catch(wasm_error) receives it.
kernel_panic ==
  /\ tl.phase = "vmlinux_run"
  /\ tl' = wasm_error([tl EXCEPT !.panicked = TRUE], "panic")
  /\ TlFrame

\* The kernel's raise_exception export, called by wasm_error, returns (an
\* Error is thrown) or panics again (a Trap is thrown): either rejects the
\* promise wasm_error ran for, and nothing is chained on the rejection.
raise_exception ==
  /\ tl.phase = "raise_exception"
  /\ \E returns \in BOOLEAN :
       tl' = [tl EXCEPT !.phase = "dormant",
                        !.panicked = tl.panicked \/ ~returns]
  /\ TlFrame

\* user_executable_run without the reset of should_call_clone_callback.
user_executable_run_keeps_flag ==
  /\ tl.phase = "user_executable_setup"
  /\ tl' = [tl EXCEPT
              !.phase = "user",
              !.user_executable_instance = tl.user_executable,
              !.tls = IF tl.should_call_clone_callback THEN tl.tls_base
                      ELSE StaticTls,
              !.ran = Append(tl.ran, IF tl.should_call_clone_callback
                                     THEN "__libc_clone_callback"
                                     ELSE "_start")]
  /\ TlFrame

\* user_executable_run, after the instantiation of user_executable_setup
\* resolved: the instance becomes user_executable_instance, the clone
\* callback gets the TLS base read at setup.
user_executable_run ==
  /\ tl.phase = "user_executable_setup"
  /\ tl' = [tl EXCEPT
              !.phase = "user",
              !.user_executable_instance = tl.user_executable,
              !.should_call_clone_callback = FALSE,
              !.tls = IF tl.should_call_clone_callback THEN tl.tls_base
                      ELSE StaticTls,
              !.ran = Append(tl.ran, IF tl.should_call_clone_callback
                                     THEN "__libc_clone_callback"
                                     ELSE "_start")]
  /\ TlFrame

\* user_executable_error: what .catch does with an exception that left the
\* user instance.
user_executable_error(t, kind) ==
  IF kind = "reload_program" THEN user_executable_chain([t EXCEPT !.trap = kind])
  ELSE IF kind = "panic" THEN [t EXCEPT !.phase = "dormant", !.trap = kind]
  ELSE IF kind = "signal_return"
       THEN [t EXCEPT !.phase = "dormant", !.trap = kind]
  ELSE wasm_error(t, kind)

\* The catch clause without the reload of the stack pointer and TLS base.
RECURSIVE Throw_keeps_registers(_, _)
Throw_keeps_registers(t, kind) ==
  IF kind = "signal_return" /\ t.handlers # <<>>
  THEN LET flow == t.handlers[Len(t.handlers)]
           u == [t EXCEPT !.handlers = SubSeq(t.handlers, 1, Len(t.handlers) - 1),
                          !.popped = t.popped + 1]
       IN IF Bit2(flow) THEN Throw_keeps_registers(u, "signal_return") ELSE u
  ELSE user_executable_error([t EXCEPT !.handlers = <<>>,
                                       !.abandoned = Len(t.handlers)], kind)

\* An exception thrown below the user instance: the catch clause of every
\* wasm_user_mode_tail that waits in a signal handler sees it on the way
\* up.  It takes a signal_return, reloads the user stack pointer and the TLS
\* base from the kernel and goes on (to the throw of flow & 2, or back into
\* the interrupted code); it throws everything else again.
RECURSIVE Throw(_, _)
Throw(t, kind) ==
  IF kind = "signal_return" /\ t.handlers # <<>>
  THEN LET flow == t.handlers[Len(t.handlers)]
           u == [t EXCEPT !.handlers = SubSeq(t.handlers, 1, Len(t.handlers) - 1),
                          !.popped = t.popped + 1,
                          !.sp = t.ksp, !.tls = t.ktls]
       IN IF Bit2(flow) THEN Throw(u, "signal_return") ELSE u
  ELSE user_executable_error([t EXCEPT !.handlers = <<>>,
                                       !.abandoned = Len(t.handlers)], kind)

\* wasm_user_mode_tail(flow), up to the call of the signal handler or the
\* exception it throws.
wasm_user_mode_tail(t0, flow) ==
  LET t == [t0 EXCEPT !.popped = 0] IN
  IF flow = 0 - 1 THEN Throw(t, "reload_program")
  ELSE IF flow >= 1 /\ flow <= 3
       THEN IF Bit1(flow)
            THEN IF t.user_executable_instance = 0 THEN Throw(t, "error")
                 ELSE [t EXCEPT !.sp = t.ksp, !.tls = t.ktls,
                                !.handlers = Append(t.handlers, flow)]
            ELSE Throw(t, "signal_return")
  ELSE Throw(t, "error")

\* The user program (its main code or a signal handler) moves its stack
\* pointer.
user_code ==
  /\ tl.phase = "user"
  /\ \E sp \in Regs \ {tl.sp} : tl' = [tl EXCEPT !.sp = sp]
  /\ TlFrame

\* A syscall that returns to the user program without tail code.
syscall_returns ==
  /\ tl.phase = "user"
  /\ \E ksp \in Regs, ktls \in Regs : tl' = [tl EXCEPT !.ksp = ksp, !.ktls = ktls]
  /\ TlFrame

\* A syscall the kernel ends with wasm_user_mode_tail(flow), exec apart.
syscall_tail ==
  /\ tl.phase = "user"
  /\ \E flow \in Flows \ {0 - 1}, ksp \in Regs, ktls \in Regs :
       /\ Bit1(flow) /\ flow <= 3 => Len(tl.handlers) < MaxSignals
       /\ tl' = wasm_user_mode_tail([tl EXCEPT !.ksp = ksp, !.ktls = ktls], flow)
  /\ TlFrame

\* An exec syscall: the kernel loads the new executable and ends with tail
\* code -1.
syscall_exec ==
  /\ tl.phase = "user"
  /\ tl.loads < MaxLoads
  /\ \E ksp \in Regs, ktls \in Regs :
       tl' = wasm_user_mode_tail(
               exec_load_executable([tl EXCEPT !.ksp = ksp, !.ktls = ktls]), 0 - 1)
  /\ TlFrame

\* wasm_panic fires in a syscall of the user program.
syscall_panic ==
  /\ tl.phase = "user"
  /\ tl' = Throw([tl EXCEPT !.panicked = TRUE, !.popped = 0], "panic")
  /\ TlFrame

NextRunner ==
  \/ \E type \in RunnerTypes, has_executable \in BOOLEAN :
       init_chain(type, has_executable)
  \/ vmlinux_setup \/ vmlinux_run \/ kernel_panic \/ raise_exception
  \/ user_executable_run \/ user_code \/ syscall_returns \/ syscall_tail
  \/ syscall_exec \/ syscall_panic

SpecRunner == Init /\ [][NextRunner]_vars

(***************************************************************************)
(* Claims about the top level of a runner.                                 *)
(***************************************************************************)

\* C24: once the kernel panic callback has fired on a runner, in the kernel
\* phase as well as in a syscall of the user program, the runner is dormant:
\* it executes no kernel or user code any more, and the state of the
\* controller and of the other runners is left as it was.
C24_PanicLeavesRunnerDormant ==
  [][tl'.panicked => (tl'.phase = "dormant" /\ subVars' = subVars)]_vars

\* C29: when the kernel ends a syscall with the exec tail code, the runner
\* abandons the user instance together with every signal handler waiting in
\* it, completing no signal-return, and waits for the instantiation of the
\* module the kernel loaded last; the next thing it runs is the program
\* entry point of an instance of that module, also when the runner had
\* started with the clone callback.
C29_ExecRunsPreloadedModule ==
  [][ /\ (tl.phase = "user" /\ tl'.loads # tl.loads) =>
           /\ tl'.phase = "user_executable_setup"
           /\ tl'.trap = "reload_program"
           /\ tl'.handlers = <<>>
           /\ tl'.popped = 0
           /\ tl'.user_executable_instance = 0
           /\ tl'.user_executable = tl'.loads
      /\ (tl.phase = "user_executable_setup" /\ tl.trap = "reload_program"
            /\ tl'.phase # tl.phase) =>
           /\ tl'.phase = "user"
           /\ tl'.user_executable_instance = tl.loads
           /\ tl'.ran = Append(tl.ran, "_start")
           /\ tl'.handlers = <<>> ]_vars

\* C29 witness: a runner that started with the clone callback runs the
\* entry point of the second module after an exec from a signal handler.
C29_Witness ==
  /\ tl.phase = "user"
  /\ tl.ran = <<"__libc_clone_callback", "_start">>
  /\ tl.trap = "reload_program"
  /\ tl.abandoned > 0
  /\ tl.user_executable_instance = 2

\* C30: a tail code with the delivery bit starts the signal handler on the
\* kernel's stack pointer and TLS base and raises no signal-return before
\* the handler is unwound, also when the code is 3; when a signal-return
\* unwinds handlers and the tail function then returns to the interrupted
\* code, the instance holds the kernel's current stack pointer and TLS
\* base, and every handler unwound but the outermost one had been started
\* with code 3; a tail code other than -1, 1, 2, 3 is an error, handed to
\* wasm_error.
C30_SignalReturnReloads ==
  /\ [](tl.phase = "user" =>
          \A flow \in Flows \ {0 - 1, 1, 2, 3} :
            LET u == wasm_user_mode_tail(tl, flow)
            IN u.trap = "error" /\ u.phase = "raise_exception")
  /\ [][ /\ Len(tl'.handlers) > Len(tl.handlers) =>
              /\ \E flow \in {1, 3} : tl'.handlers = Append(tl.handlers, flow)
              /\ tl'.phase = "user"
              /\ tl'.popped = 0
              /\ tl'.sp = tl'.ksp /\ tl'.tls = tl'.ktls
         /\ (Len(tl'.handlers) < Len(tl.handlers) /\ tl'.phase = "user") =>
              /\ tl'.handlers = SubSeq(tl.handlers, 1, Len(tl'.handlers))
              /\ tl'.popped = Len(tl.handlers) - Len(tl'.handlers)
              /\ ~Bit2(tl.handlers[Len(tl'.handlers) + 1])
              /\ \A i \in (Len(tl'.handlers) + 2) .. Len(tl.handlers) :
                   tl.handlers[i] = 3
              /\ tl'.sp = tl'.ksp /\ tl'.tls = tl'.ktls ]_vars

\* C30 witness: a signal-return has unwound a handler started with code 3
\* and the handler below it, and the interrupted main code runs again.
C30_Witness ==
  /\ tl.phase = "user"
  /\ tl.popped = 2
  /\ tl.handlers = <<>>
  /\ tl.sp = tl.ksp /\ tl.tls = tl.ktls

(***************************************************************************)
(* Relay server (linux.js, classes RateLimiter and WSProxyServer): the     *)
(* 'open' and 'close' frames of one authenticated user on one WebSocket.   *)
(* handleOpen is an async function: the part before its await of the DNS   *)
(* resolver, the part after it and each socket event are steps of their    *)
(* own, and the frames of the user are handled as they arrive, without     *)
(* waiting for the handleOpen of an earlier frame.  Every frame names an   *)
(* allowed port and an id of its own, and no minute passes.  The WebSocket *)
(* may close at any time; no frame arrives after that.                     *)
(***************************************************************************)
RelayFrame == UNCHANGED <<subVars, sc, np, tl>>

\* RateLimiter.canConnect
canConnect(r) ==
  /\ ~(r.connectionsThisMinute >= connectionsPerMinute)
  /\ ~(r.activeConnections >= maxConcurrentConnections)

\* handleOpen up to its await: the rate limit check, then the DNS resolver
\* is started.
handleOpen(id) ==
  /\ rl.wsOpen
  /\ rl.request[id] = "none"
  /\ rl' = [rl EXCEPT !.request[id] = IF canConnect(rl) THEN "resolving"
                                      ELSE "refused"]
  /\ RelayFrame

\* handleOpen after its await: the resolver threw (an error frame is sent),
\* or the socket is created and its connect started.
handleOpen_resolved(id) ==
  /\ rl.request[id] = "resolving"
  /\ \E ok \in BOOLEAN :
       rl' = [rl EXCEPT !.request[id] = IF ok THEN "connecting" ELSE "refused"]
  /\ RelayFrame

\* onConnect: the socket is connected; recordConnection and
\* clientConnections.set.
handleOpen_onConnect(id) ==
  /\ rl.request[id] = "connecting"
  /\ rl' = [rl EXCEPT !.request[id] = "established",
                      !.connectionsThisMinute = @ + 1,
                      !.activeConnections = @ + 1,
                      !.clientConnections = @ \cup {id}]
  /\ RelayFrame

\* The connect timer fires (socket.destroy()) or the connect fails: the
\* 'close' event finds no entry of the map.
handleOpen_timeout(id) ==
  /\ rl.request[id] = "connecting"
  /\ rl' = [rl EXCEPT !.request[id] = "gone"]
  /\ RelayFrame

\* The 'close' event of a socket that was connected: the entry, when there
\* is one, is deleted and recordDisconnection called.
handleOpen_socket_close(id) ==
  /\ rl.request[id] \in {"established", "ended"}
  /\ rl' = IF id \in rl.clientConnections
           THEN [rl EXCEPT !.request[id] = "gone",
                           !.clientConnections = @ \ {id},
                           !.activeConnections = IF @ - 1 > 0 THEN @ - 1 ELSE 0]
           ELSE [rl EXCEPT !.request[id] = "gone"]
  /\ RelayFrame

\* handleClose: a 'close' frame for an id of the map ends the socket,
\* deletes the entry and calls recordDisconnection; for any other id it
\* does nothing.
handleClose(id) ==
  /\ rl.wsOpen
  /\ id \in rl.clientConnections
  /\ rl' = [rl EXCEPT !.request[id] = "ended",
                      !.clientConnections = @ \ {id},
                      !.activeConnections = IF @ - 1 > 0 THEN @ - 1 ELSE 0]
  /\ RelayFrame

\* RateLimiter.recordDisconnection, called n times.
RECURSIVE recordDisconnections(_, _)
recordDisconnections(active, n) ==
  IF n = 0 THEN active
  ELSE recordDisconnections(IF active - 1 > 0 THEN active - 1 ELSE 0, n - 1)

\* The 'close' handler of the user's WebSocket (handleConnection): for
\* every entry of clientConnections the socket is destroyed and
\* recordDisconnection called, then the map is cleared.  The 'close' event
\* of a destroyed socket finds no entry and changes nothing; a socket that
\* is still resolving or connecting is not in the map and goes on.
handleConnection_close ==
  /\ rl.wsOpen
  /\ rl' = [rl EXCEPT
              !.wsOpen = FALSE,
              !.request = [id \in RequestIds |->
                             IF id \in rl.clientConnections THEN "gone"
                             ELSE @[id]],
              !.activeConnections =
                 recordDisconnections(@, Cardinality(rl.clientConnections)),
              !.clientConnections = {}]
  /\ RelayFrame

NextRelay ==
  \/ \E id \in RequestIds :
       \/ handleOpen(id) \/ handleOpen_resolved(id) \/ handleOpen_onConnect(id)
       \/ handleOpen_timeout(id) \/ handleOpen_socket_close(id) \/ handleClose(id)
  \/ handleConnection_close

SpecRelay == Init /\ [][NextRelay]_vars

\* C25: the user never has more than maxConcurrentConnections TCP
\* connections established at the same time.
C25_ConcurrentConnectionsBounded ==
  Cardinality({id \in RequestIds : rl.request[id] = "established"})
    <= maxConcurrentConnections

(***************************************************************************)
(* The hand-off under fair scheduling: a running worker thread goes on     *)
(* through lock_wait and serialize_me, and the controller's handler runs   *)
(* to its end.  What the guest does (whether it hands off at all) and      *)
(* when the controller receives a message is left open.                    *)
(***************************************************************************)
FairHandoff ==
  /\ WF_vars(LockOpStep)
  /\ \A r \in Runners :
       /\ WF_vars(lock_wait_enter(r))
       /\ WF_vars(lock_wait_reset(r))
       /\ WF_vars(serialize_me_return(r))

SpecFair == Spec /\ FairHandoff

\* The controller has handled a hand-off to runner r (its store of the
\* wake is queued or done, and r has not consumed it) while r is in
\* serialize_me and has not passed its wait.
WakeOwed(r) ==
  /\ Running(r)
  /\ pc[r] \in {"ser_wait", "ser_asleep"}
  /\ \/ wakePending[r]
     \/ \E i \in DOMAIN ctlOps : ctlOps[i].op = "lock_store" /\ ctlOps[i].r = r

\* C26: once the controller has handled a hand-off naming a catalogued
\* next_task, the runner of next_task, when it is in its serialize wait or
\* enters it, returns from serialize_me (or is terminated first), also when
\* the store and the notify came before the runner called its wait.
C26_WakeNotLost ==
  \A r \in Runners : WakeOwed(r) ~> (pc[r] = "run" \/ ~Running(r))

\* C26 witness: the wake is stored and notified, the controller is done, and
\* the runner it is for has posted its own hand-off but not yet called its
\* wait.
C26_Witness ==
  \E r \in Runners :
    /\ Running(r) /\ pc[r] = "ser_wait"
    /\ wakePending[r] /\ locks[r] = 1
    /\ ctlOps = <<>>

\* Runner r executes kernel or user code: it has entered the kernel and is
\* neither in serialize_me nor in a host call.
Executing(r) == Running(r) /\ pc[r] = "run"

\* No secondary CPU has been brought up.
OnlyPrimaryOnline ==
  /\ \A c \in CpuIds \ {0} : ~online[c]
  /\ \A r \in Runners : runner_type[r] # "secondary_cpu"

\* No hand-off that is posted, being handled, or was the last to wake or to
\* store a wake for a runner names the task of the runner that posted it.
HandsOffToOthers ==
  /\ \A r \in Runners : \A i \in DOMAIN outbox[r] :
       outbox[r][i].method = "serialize_tasks" => outbox[r][i].a1 # outbox[r][i].a2
  /\ \A i \in DOMAIN ctlOps : ctlOps[i].tag[1] # ctlOps[i].r
  /\ \A r \in Runners : lastStored[r][1] # r /\ wokeBy[r][1] # r

\* C27: as long as no secondary CPU has been brought up and the guest hands
\* off to other tasks, at most one runner executes kernel or user code: a
\* runner that posted a hand-off stays in serialize_me until a later
\* hand-off names its task.
C27_OneRunnerExecutes ==
  (OnlyPrimaryOnline /\ HandsOffToOthers) =>
    Cardinality({r \in Runners : Executing(r)}) <= 1

(***************************************************************************)
(* SpecReap: host calls of a secondary CPU's runner that the controller    *)
(* terminates (stop_secondary) while the call awaits its backend.          *)
(***************************************************************************)
ReapRunnerStep(r) ==
  \/ init(r)
  \/ init_vmlinux_run(r)
  \/ init_instantiate_rejects(r)
  \/ wasm_start_cpu(r)
  \/ wasm_stop_cpu(r)
  \/ wasm_net_open(r)
  \/ wasm_fs_load(r)
  \/ messenger_wait(r)
  \/ messenger_load_status(r)
  \/ messenger_load_result(r)

ReapHandlerStep(r) ==
  \/ start_primary(r)
  \/ start_secondary(r)
  \/ stop_secondary(r)
  \/ net_open(r)
  \/ fs_load(r)

ReapAsyncStep(m) ==
  \/ fs_load_then(m)
  \/ fs_catch(m)

NextReap ==
  \/ \E r \in Runners : ReapRunnerStep(r)
  \/ \E r \in Runners : ReapHandlerStep(r)
  \/ \E m \in pending : ReapAsyncStep(m)
  \/ initNetProxy(1)
  \/ \E c \in ClientIds :
       \/ net_ws_onopen(c) \/ net_ws_onerror(c) \/ net_ws_onclose(c)
       \/ net_opened(c)
  \/ initFsPersist
  \/ MessengerOpStep

SpecReap == Init /\ [][NextReap]_vars

\* C28: when the backend of a host call completes after the runner that
\* made the call was terminated, the controller queues no store and no
\* notify, writes nothing at the call's buffer and creates no connection
\* record.
C28_DeadRunnerCallReaped ==
  [][\A m \in pending \ pending' :
       worker[m.from] = "terminated" =>
         /\ ctlOps' = <<>>
         /\ kbuf' = kbuf
         /\ netConnections' = netConnections
         /\ Present(np') = Present(np)]_vars

(***************************************************************************)
(* The scratch region at the start of a wrapped syscall (SpecSyscall).     *)
(***************************************************************************)

\* The bytes of the string at user_ptr, terminator included, are at
\* kernel_ptr in kernel memory.
StringAt(s, user_ptr, kernel_ptr) ==
  LET len == ScanString(s.umem, user_ptr, 0)
  IN /\ len # Undefined
     /\ \A k \in 0 .. len : s.kmem[kernel_ptr + k] = s.umem[user_ptr + k]

\* C31: in every wrapped syscall of arity 1 to 6 the first allocation of
\* the scratch region finds the bump pointer at zero and is placed at offset
\* 0, whatever an earlier syscall left behind; so the first pointer copied
\* in (for an iovec call the array of entries, which is that first
\* allocation) is at the start of the scratch region, and when the kernel is entered
\* for an openat the path argument is the start of the scratch region, which
\* holds the path and its terminator.
C31_FirstCopyAtOffsetZero ==
  (sc.isolated /\ sc.pc # "entry" /\ Len(sc.orig) \in 1 .. 6) =>
    /\ sc.allocs # <<>> =>
         sc.allocs[1].before = 0 /\ sc.allocs[1].offset = 0
    /\ (sc.copyins # <<>> /\ SYSCALL_POINTER_MAP(sc.nr).iovec = NoIovec) =>
         /\ sc.copyins[1].before = 0
         /\ sc.copyins[1].ok => sc.copyins[1].kernel_ptr = SyscallBufferOffset
    /\ (sc.nr = SYS_openat /\ sc.pc = "kernel") =>
         /\ sc.args[2] = SyscallBufferOffset
         /\ StringAt(sc, sc.orig[2], SyscallBufferOffset)

\* An openat entered the kernel after an earlier syscall had left the bump
\* pointer away from zero.
C31_Witness ==
  /\ sc.isolated /\ sc.pc = "kernel" /\ sc.nr = SYS_openat
  /\ sc.cur0 = LeftOver
  /\ sc.copyins # <<>> /\ sc.copyins[1].user_ptr = PathAddr
  /\ sc.args[2] = SyscallBufferOffset

\* C32: for every position a descriptor marks as both input and output
\* (the uaddr of futex, 4 bytes) with a non-null user pointer on an isolated
\* runner, the kernel is entered with a scratch address that holds the
\* bytes at the user address, and after the kernel's return the bytes at
\* that scratch address are copied back to the user address.
C32_InOutThroughScratch ==
  sc.isolated =>
    \A i \in SYSCALL_POINTER_MAP(sc.nr).inout :
      LET size == SYSCALL_POINTER_MAP(sc.nr).sizes[i]
          user_ptr == sc.orig[i + 1]
          kernel_ptr == sc.args[i + 1]
      IN user_ptr # 0 =>
           /\ sc.pc = "kernel" =>
                /\ InScratch(kernel_ptr, size)
                /\ \A k \in 0 .. (size - 1) :
                     sc.kmem[kernel_ptr + k] = sc.umem[user_ptr + k]
           /\ sc.pc = "done" =>
                \E j \in 1 .. Len(sc.copies) :
                  /\ sc.copies[j].user_ptr = user_ptr
                  /\ sc.copies[j].kernel_ptr = kernel_ptr
                  /\ sc.copies[j].size = size

(***************************************************************************)
(* The catalogue after a release or a stop (Spec).                         *)
(***************************************************************************)

\* The worker of runner w was terminated and no key of the task catalogue
\* maps to it.
Released(w) ==
  worker[w] = "terminated" /\ \A t \in DOMAIN tasks : tasks[t] # w

\* The controller has a write of last_task or a serialize wake for runner w
\* still to do.
LockOpQueued(w) ==
  \E i \in 1 .. Len(ctlOps) :
    ctlOps[i].op \in {"last_task", "lock_store", "lock_notify"} /\ ctlOps[i].r = w

\* C33: when the controller handles release_task(t) for a catalogued t, the
\* runner of t is terminated and t leaves the catalogue; from then on the
\* controller neither queues nor performs a write of last_task or a
\* serialize wake for that runner.
C33_ReleasedRunnerNeverWoken ==
  [][/\ \A r \in Runners : \A t \in DOMAIN tasks : \A w \in Runners :
          (release_task(r) /\ Head(outbox[r]).a1 = t /\ tasks[t] = w) =>
             /\ worker'[w] = "terminated"
             /\ tasks'[t] = 0
             /\ Released(w)'
     /\ \A w \in Runners :
          Released(w) =>
             /\ ~LockOpQueued(w) /\ ~LockOpQueued(w)'
             /\ last_task'[w] = last_task[w] /\ locks'[w] = locks[w]
             /\ Released(w)']_vars

\* A runner was released and a hand-off that names its task is about to be
\* handled by the controller.
C33_Witness ==
  \E w \in Runners : \E r \in Runners :
    /\ Released(w)
    /\ Handling(r, "serialize_tasks") /\ Head(outbox[r]).a2 = w

(***************************************************************************)
(* Wakes that meet a runner between its wake and its reset (Spec).         *)
(***************************************************************************)

\* C34: when a runner resets its serialize slot, the wake the reset consumes
\* is the last one the controller stored for it: no hand-off wake that was
\* stored after the runner was woken and before it reset the slot is
\* erased, so the next serialize wait of the runner still finds it; and the
\* value serialize_me returns is the prev_task of the hand-off that ended
\* the wait.
C34_WakeBeforeResetKept ==
  [][HandsOffToOthers =>
       \A r \in Runners : lock_wait_reset(r) => lastStored[r] = wokeBy[r]]_vars

\* C35: every key of the task catalogue maps to a runner whose worker has
\* not been terminated; after stop_secondary or release_task no entry,
\* the idle task of a stopped CPU included, refers to the terminated runner.
C35_CatalogueHasLiveRunners ==
  \A t \in DOMAIN tasks : tasks[t] # 0 => worker[tasks[t]] # "terminated"

(***************************************************************************)
(* Events of a superseded channel of the relay client.                     *)
(***************************************************************************)

\* Socket w was replaced: the client's channel is a WebSocket created
\* after it.
Superseded(w) == np.ws # 0 /\ w < np.ws

\* C36: the close event of a superseded WebSocket leaves the state of the
\* newer channel as it is: the connection table, the pending opens, the
\* connected flag and the pending connect promise.
C36_OldCloseLeavesNewChannel ==
  [][\A w \in DOMAIN np.sockets :
       (Superseded(w) /\ np.sockets[w].rs \in {"closing", "failed"}
          /\ np' = onclose(np, w))
         => /\ np'.connections = np.connections
            /\ np'.pendingOpens = np.pendingOpens
            /\ np'.connected = np.connected
            /\ np'.connectPromise = np.connectPromise]_vars

(***************************************************************************)
(* SpecSettle: the open() calls of the relay client with the scheduling    *)
(* the browser gives: a WebSocket that is being connected opens or fails   *)
(* (its error event comes before its close event, so the connect promise   *)
(* is settled when the close event is handled), and a timer that was armed *)
(* fires.  The proxy may answer an open frame or stay silent.              *)
(***************************************************************************)

\* The error event of a WebSocket whose connection was not established.
ws_error_event ==
  /\ EventLoop
  /\ \E w \in SocketsIn({"connecting", "closing"}) :
       np.sockets[w].promise = "pending" /\ np' = onerror(np, w)
  /\ ProxyFrame

\* The close event of a WebSocket, after its error event if it had one.
ws_close_event ==
  /\ EventLoop
  /\ \E w \in SocketsIn({"closing", "failed"}) :
       np.sockets[w].promise # "pending" /\ np' = onclose(np, w)
  /\ ProxyFrame

NextSettle ==
  \/ call_open(MaxOpens) \/ open_microtask
  \/ ws_onopen \/ ws_error_event \/ ws_closing
  \/ ws_close_event \/ recv_opened \/ recv_error \/ timer_fires
  \/ call_onError \/ call_disconnect

FairSettle ==
  /\ WF_vars(open_microtask)
  /\ WF_vars(ws_onopen \/ ws_error_event)
  /\ WF_vars(timer_fires)

SpecSettle == Init /\ [][NextSettle]_vars /\ FairSettle

\* C37: every promise returned by open() eventually settles (resolves or
\* rejects), whatever the client calls and the channel does afterwards,
\* disconnect() while the open is pending included.
C37_OpenEventuallySettles ==
  \A c \in 1 .. MaxOpens :
    (c \in DOMAIN np.opens)
      ~> (c \in DOMAIN np.opens /\ np.opens[c].outcome # "none")

(***************************************************************************)
(* SpecNet: one runner that opens connections and reads from them, from   *)
(* its host callbacks to the frames of the proxy: the runner's messenger,  *)
(* the controller's handlers and queued stores, the relay client and the   *)
(* controller's connection table, with payloads of different lengths.      *)
(***************************************************************************)

\* A data frame with payload reaches the relay client for id.
net_data(id, payload) ==
  /\ DataFrame(0, id, payload)
  /\ hist' = [hist EXCEPT !.arrived[id] = Append(@, payload)]
  /\ SocketFrame0

\* host_callbacks.wasm_net_open returns to the guest.
wasm_net_open_return(r) ==
  hcall[r].method = "net_open" /\ messenger_load_result(r)

\* host_callbacks.wasm_net_read returns to the guest, which takes as many
\* bytes as it was told of from the buffer of the call.
wasm_net_read_return(r) ==
  /\ hcall[r].method = "net_read"
  /\ LoadResult(r)
  /\ hist' = IF ret'[r] > 0
               THEN [hist EXCEPT !.returned[hcall[r].a1] =
                                    @ \o GuestBytes(r, ret'[r])]
               ELSE hist

NetRunnerStep(r) ==
  \/ init(r)
  \/ init_vmlinux_run(r)
  \/ init_instantiate_rejects(r)
  \/ wasm_net_open(r)
  \/ wasm_net_read(r)
  \/ messenger_wait(r)
  \/ messenger_load_status(r)
  \/ wasm_net_open_return(r)
  \/ wasm_net_read_return(r)

NextNet ==
  \/ \E r \in Runners : NetRunnerStep(r)
  \/ \E r \in Runners : start_primary(r) \/ net_open(r) \/ net_read(r)
  \/ ~netProxy /\ initNetProxy(1)
  \/ net_ws_onopen(0) \/ net_ws_closing(0) \/ net_ws_onclose(0)
  \/ net_opened(0)
  \/ \E id \in ConnIds :
       \/ \E payload \in Payloads : net_data(id, payload)
       \/ net_onClose(0, id)
       \/ net_onError(0, id)
  \/ atomics_store \/ atomics_notify

SpecNet == Init /\ [][NextNet]_vars

\* C38: for a connection opened through net_open, the bytes successive
\* net_read host calls return to the guest, concatenated, are a prefix of
\* the payloads of the data frames that arrived for the connection,
\* concatenated in arrival order, frames handled before the data callback
\* was registered included; and a net_read returns at most count bytes.
C38_ReadsPrefixOfArrivals ==
  /\ [](\A id \in ConnIds :
          IsPrefix(hist.returned[id], Flatten(hist.arrived[id])))
  /\ [][\A r \in Runners :
          wasm_net_read_return(r) => ret'[r] <= hcall[r].a2]_vars

(***************************************************************************)
(* net_poll against net_read (SpecBridge).                                 *)
(***************************************************************************)

\* What wasm_net_read returns for the stores net_read makes on record conn.
ReadReturn(r, conn, count) ==
  LET ops == net_read_ops(r, conn, count)
  IN ReturnOfResult(Msg("net_read", r, 0, count, 0), ops[1].val, ops[2].val)

\* C39: when the controller handles a net_poll, the status it stores agrees
\* with what a net_read handled next would return: 1 (data available)
\* exactly when the read would return at least one byte, 2 (closed) only
\* when the buffer is empty, and 3 (error) for an id with no record.
C39_PollAgreesWithRead ==
  [][\A r \in Runners :
       net_poll(r) =>
         LET conn == netConnections[Head(outbox[r]).a1]
             status == net_poll_status(conn)
         IN /\ \A count \in Counts :
                 (status = 1) <=> (ReadReturn(r, conn, count) >= 1)
            /\ status = 2 => Len(conn.buffer) = 0
            /\ ~conn.present => status = 3]_vars

(***************************************************************************)
(* SpecConsole: console reads of the runners against injections of keys    *)
(* with different encodings.                                               *)
(***************************************************************************)

\* The characters key_input is called with: "a" and U+00E9.
KeyData == {97, 233}

\* text_encoder.encode of one character below U+0800: UTF-8.
TextEncode(cp) ==
  IF cp < 128 THEN <<cp>> ELSE <<192 + (cp \div 64), 128 + (cp % 64)>>

\* key_input(data): the encoded bytes are appended to input_buffer.
key_input(data) ==
  /\ ctlOps = <<>> /\ Len(input_buffer) < MaxBuf
  /\ input_buffer' = input_buffer \o TextEncode(data)
  /\ hist' = [hist EXCEPT !.typed = @ \o TextEncode(data)]
  /\ UNCHANGED <<cpus, tasks, outbox, ctlOps, pending, kbuf, netVars, fsVars>>
  /\ NoRunnerChange /\ CtlFrame0

\* host_callbacks.wasm_driver_hvc_get returns to the guest, which takes as
\* many bytes as it was told of from the buffer of the call.
wasm_driver_hvc_get_return(r) ==
  /\ hcall[r].method = "console_read"
  /\ LoadStatus(r)
  /\ hist' = IF ret'[r] > 0
               THEN [hist EXCEPT !.got = @ \o GuestBytes(r, ret'[r])]
               ELSE hist

NextConsole ==
  \/ \E r \in Runners :
       \/ init(r) \/ init_vmlinux_run(r) \/ init_instantiate_rejects(r)
       \/ wasm_driver_hvc_get(r)
       \/ messenger_wait(r) \/ wasm_driver_hvc_get_return(r)
  \/ \E r \in Runners : start_primary(r) \/ console_read(r)
  \/ \E data \in KeyData : key_input(data)
  \/ atomics_store \/ atomics_notify

SpecConsole == Init /\ [][NextConsole]_vars

\* C40: the bytes successive console reads deliver to the guest are,
\* concatenated, a prefix of the bytes injected by key_input in injection
\* order, in every interleaving of injections and reads: an injection
\* appends its bytes to the pending input and removes none, and a console
\* read writes min(available, count) bytes from the front of the pending
\* input at the buffer, removes exactly those and reports their number.
C40_ReadsTakeFrontOfInput ==
  /\ [](IsPrefix(hist.got, hist.typed))
  /\ [][/\ \A data \in KeyData :
             key_input(data) => IsPrefix(input_buffer, input_buffer')
        /\ \A r \in Runners :
             console_read(r) =>
               LET n == Min(Head(outbox[r]).a2, Len(input_buffer)) IN
                 /\ SubSeq(kbuf'[r], 1, n) \o input_buffer' = input_buffer
                 /\ ctlOps'[1].val = n]_vars

====
